---- MODULE Spec2Model ----
(***************************************************************************)
(* Lightmetrica v3: the render() entry points of renderer::pt,             *)
(* renderer::volpt and renderer::ptdirect, the scene requirement checks,   *)
(* the asset group replacement tests and the per-sample random walk of     *)
(* Renderer_PT.                                                            *)
(***************************************************************************)
EXTENDS Integers, Sequences, FiniteSets, TLC

\* ------------------------------------------------------------------------
\* Bounds of the model
\* ------------------------------------------------------------------------
MaxW == 2
MaxH == 2
MaxSpp == 2
MaxLights == 1

\* No exception.
NoError == [kind |-> "none", element |-> "none"]

VARIABLES
    \* --- render() of the three renderers -------------------------------
    renderer,           \* "pt" | "volpt" | "ptdirect"
    num_nodes,          \* Scene::num_nodes()
    camera_node,        \* Scene::camera_node(), -1 when there is no camera
    num_lights,         \* Scene::num_lights()
    accel,              \* Scene::accel() is non-null
    image_sample_mode_, \* "Pixel" | "Image"
    size,               \* film_->size(): [w, h]
    sched_,             \* scheduler: [kind |-> "spp" | "spi" | "foreach", n]
    rpc,                \* position inside render()
    err,                \* exception leaving render(), NoError when there is none
    required,           \* require_renderable() was called by this render()
    clears,             \* number of film_->clear() calls
    issued,             \* number of tasks the scheduler has run
    window,             \* sample window of the task run last
    taskCount,          \* tasks per pixel (x, y) of the film
    outside,            \* tasks whose sample window left the unit square
    written,            \* some pixel was written (splat or setPixel)
    processed,          \* value returned by sched_->run
    rescales,           \* factors passed to film_->rescale, in order
    workers,            \* number of worker threads of the scheduler
    seed_,              \* seed_ of the renderer, NoSeed when there is none
    running,            \* thread ids that are inside a task
    rng,                \* thread id -> the thread_local Rng of that thread
    runStart,           \* thread id -> state of its Rng at its first task
    filmOps,            \* operations made on the film by this render()
    \* --- asset group registered as root "$" ----------------------------
    assets,             \* name -> instance registered under it, 0 when none
    insts,              \* every instance created so far, by creation order
    lastLoad,           \* name -> arguments of the latest load_asset for it
    load_result,        \* value returned by the latest load_asset
    query,              \* result of the latest f() query through get()
    \* --- one task of Renderer_PT::render: the random walk --------------
    pt_mode_,           \* "Naive" | "NEE" | "MIS"
    max_length_,        \* maximum path length
    wpc,                \* position inside the loop body
    length,             \* loop counter
    wi,                 \* incident direction, 0 for Vec3{}
    sp,                 \* current interaction: "camera_term" | "surface" | "infinite"
    raster_pos,         \* cached raster position, 0 for Vec2{}
    s,                  \* result of sample_ray in this iteration
    nee,                \* the NEE edge is sampled in this iteration
    sL,                 \* result of sample_direct_light and its queries
    hit,                \* result of intersect and its queries
    neeSplat,           \* splat made by the NEE block in this iteration
    directSplat,        \* splat made by the direct hit in this iteration
    derefEmpty,         \* an empty optional was dereferenced
    throughput,         \* path throughput, one extended fraction per channel
    rr,                 \* Russian roulette of this iteration
    \* --- one task of Renderer_VolPT::render ------------------------------
    prop_rr_prob,       \* "rr_prob" of the properties given to construct
    max_verts_,         \* maximum number of path vertices
    rr_prob_,           \* Russian roulette probability
    num_verts,          \* loop counter, from 1
    comp,               \* component index of the current vertex
    samplable_by_nee,   \* NEE is sampled at the current vertex
    sd,                 \* result of sample_distance in this iteration
    \* --- one material at one surface point ------------------------------
    material,           \* the material that is called
    Ni_,                \* index of refraction of Material_Glass
    geom,               \* the surface point: reflectances, alpha, normal
    lobe,               \* what each underlying material answers there
    call,               \* the last call made to the material
    \* --- construct() of a model and of a renderer ----------------------
    component,          \* the component under construction
    props,              \* the properties given to construct
    pending,            \* callbacks objloader::load has still to make
    assets_,            \* Model_WavefrontObj: underlying assets
    assets_map_,        \* Model_WavefrontObj: name -> index into assets_
    groups_,            \* Model_WavefrontObj: mesh groups
    this,               \* Renderer_PT: pt_mode_, image_sample_mode_, sched_
    cpc,                \* position inside construct
    cerr,               \* exception leaving construct
    \* --- Scene::visible ------------------------------------------------
    vcall               \* the last call visible(sp1, sp2)

renderVars == <<renderer, num_nodes, camera_node, num_lights, accel,
                image_sample_mode_, size, sched_, rpc, err, required, clears,
                issued, window, taskCount, outside, written, processed,
                rescales, workers, seed_, running, rng, runStart, filmOps>>

sceneVars == <<num_nodes, camera_node, num_lights, accel>>
configVars == <<renderer, image_sample_mode_, size, sched_>>
taskVars == <<issued, window, taskCount, outside, written>>
threadVars == <<workers, seed_, running, rng, runStart>>

assetVars == <<assets, insts, lastLoad, load_result, query>>

volVars == <<prop_rr_prob, max_verts_, rr_prob_, num_verts, comp,
             samplable_by_nee, sd>>

walkVars == <<pt_mode_, max_length_, wpc, length, wi, sp, raster_pos, s, nee,
              sL, hit, neeSplat, directSplat, derefEmpty, throughput, rr,
              volVars>>

matVars == <<material, Ni_, geom, lobe, call>>

setupVars == <<component, props, pending, assets_, assets_map_, groups_,
               this, cpc, cerr, vcall>>

vars == <<renderVars, assetVars, walkVars, matVars, setupVars>>

\* ------------------------------------------------------------------------
\* Scene requirement checking
\* ------------------------------------------------------------------------
Unsupported(element) == [kind |-> "Unsupported", element |-> element]

require_primitive(nodes) ==
    IF nodes > 1 THEN NoError ELSE Unsupported("primitive")

require_camera(cam) ==
    IF cam # -1 THEN NoError ELSE Unsupported("camera")

require_light(lights) ==
    IF lights > 0 THEN NoError ELSE Unsupported("light")

require_accel(acc) ==
    IF acc THEN NoError ELSE Unsupported("accel")

\* The first exception thrown by a sequence of calls, NoError if none throws.
FirstThrown(results) ==
    IF \E i \in 1..Len(results) : results[i] # NoError
    THEN results[CHOOSE i \in 1..Len(results) :
                    /\ results[i] # NoError
                    /\ \A j \in 1..(i - 1) : results[j] = NoError]
    ELSE NoError

require_renderable_mut(nodes, cam, lights, acc) ==
    FirstThrown(<<require_camera(cam), require_primitive(nodes),
                  require_light(lights), require_accel(acc)>>)

require_renderable(nodes, cam, lights, acc) ==
    FirstThrown(<<require_primitive(nodes), require_camera(cam),
                  require_light(lights), require_accel(acc)>>)

\* ------------------------------------------------------------------------
\* Scheduler (scheduler::spp::*, scheduler::spi::*) and parallel::foreach
\* ------------------------------------------------------------------------
NumPixels(sz) == sz.w * sz.h

\* Number of tasks one run dispatches.
NumTasks(sched, sz) ==
    CASE sched.kind = "spp" -> NumPixels(sz) * sched.n
      [] sched.kind = "spi" -> sched.n
      [] sched.kind = "foreach" -> NumPixels(sz)

\* pixel_index handed to task i: the linear index of pixel
\* (i mod W, (i / W) mod H).
SchedPixelIndex(sched, sz, i) ==
    IF sched.kind = "spp"
    THEN ((i \div sz.w) % sz.h) * sz.w + (i % sz.w)
    ELSE i

\* Value returned by run(): samples per pixel for spp, samples for spi.
SchedProcessed(sched, sz) == sched.n

\* ------------------------------------------------------------------------
\* Sample window of a task
\* ------------------------------------------------------------------------
\* The window {dx * x, dy * y, dx, dy} with dx = 1 / w and dy = 1 / h,
\* kept as the integers x, y and the denominators w, h.
PixelWindow_mut(pixel_index, sz) ==
    [x |-> pixel_index % sz.w, y |-> pixel_index \div sz.h,
     w |-> sz.w, h |-> sz.h]

PixelWindow(pixel_index, sz) ==
    [x |-> pixel_index % sz.w, y |-> pixel_index \div sz.w,
     w |-> sz.w, h |-> sz.h]

\* The window {0, 0, 1, 1}.
FullWindow == [x |-> 0, y |-> 0, w |-> 1, h |-> 1]

PT_window(mode, pixel_index, sz) ==
    IF mode = "Pixel" THEN PixelWindow(pixel_index, sz) ELSE FullWindow

\* [x/w, x/w + 1/w] x [y/h, y/h + 1/h] lies in [0,1]^2.
InUnitSquare(win) ==
    /\ win.x >= 0 /\ win.x + 1 <= win.w
    /\ win.y >= 0 /\ win.y + 1 <= win.h

Pixels(sz) == (0..(sz.w - 1)) \X (0..(sz.h - 1))

\* Book-keeping of a dispatched task drawing n samples from the window.
CountTask(win, n) ==
    /\ window' = win
    /\ IF InUnitSquare(win) /\ <<win.x, win.y>> \in DOMAIN taskCount
       THEN /\ taskCount' = [taskCount EXCEPT ![<<win.x, win.y>>] = @ + n]
            /\ UNCHANGED outside
       ELSE /\ outside' = outside + n
            /\ UNCHANGED taskCount

\* ------------------------------------------------------------------------
\* Rescale factors, as fractions <<numerator, denominator>>
\* ------------------------------------------------------------------------
PT_rescale_factor_mut(mode, sz, n) == <<sz.w * sz.h, n>>

PT_rescale_factor(mode, sz, n) ==
    IF mode = "Pixel" THEN <<1, n>> ELSE <<sz.w * sz.h, n>>

VolPT_rescale_factor(sz, n) == <<sz.w * sz.h, n>>

\* ------------------------------------------------------------------------
\* Worker threads and their random number generators
\* ------------------------------------------------------------------------
\* Renderer_PTDirect::rngSeed_
rngSeed_ == 42

Workers == {1, 2}
ThreadIds == {0, 1}
Seeds == {1, 2}

\* Values of math::rng_seed().
EntropySeeds == {0, 3}

NoSeed == [some |-> FALSE, v |-> 0]
SeedOptions == {NoSeed} \cup [some : {TRUE}, v : Seeds]

\* seed_ ? *seed_ + threadid : math::rng_seed()
RngSeed(seed, threadid, entropy) ==
    IF seed.some THEN seed.v + threadid ELSE entropy

\* A thread that has not run the declaration of its thread_local Rng.
NoRng == [init |-> FALSE, seed |-> 0]

\* thread_local Rng rng(seed): the initializer runs the first time the
\* thread passes the declaration, and never again in that thread.
ThreadLocalRng(r, seed) ==
    IF r.init THEN r ELSE [init |-> TRUE, seed |-> seed]

NoStart == [some |-> FALSE, seed |-> 0, fresh |-> FALSE]

\* An operation on the film: who makes it, the number of tasks in flight,
\* and whether a task has started and every task has finished.
FilmOp(op, worker) ==
    [op |-> op, worker |-> worker, inflight |-> Cardinality(running),
     started |-> issued > 0,
     finished |-> issued = NumTasks(sched_, size) /\ running = {}]

\* A worker thread enters the task body: its thread_local Rng.
Task_begin(t) ==
    /\ t \in 0..(workers - 1)
    /\ t \notin running
    /\ running' = running \cup {t}
    /\ \E e \in IF seed_.some \/ rng[t].init THEN {0} ELSE EntropySeeds :
          rng' = [rng EXCEPT ![t] = ThreadLocalRng(@, RngSeed(seed_, t, e))]
    /\ runStart' =
          IF runStart[t].some THEN runStart
          ELSE [runStart EXCEPT ![t] = [some |-> TRUE, seed |-> rng'[t].seed,
                                        fresh |-> ~rng[t].init]]
    /\ UNCHANGED <<workers, seed_>>

\* ------------------------------------------------------------------------
\* Initial states: a constructed renderer and a scene
\* ------------------------------------------------------------------------
Sizes == [w : 1..MaxW, h : 1..MaxH]

\* No render() has run in the process yet.
NoThreads ==
    /\ running = {}
    /\ rng = [t \in ThreadIds |-> NoRng]
    /\ runStart = [t \in ThreadIds |-> NoStart]
    /\ filmOps = {}

InitRender ==
    /\ renderer \in {"pt", "volpt", "ptdirect"}
    /\ num_nodes \in 1..2
    /\ camera_node \in {-1, 1}
    /\ num_lights \in 0..MaxLights
    /\ accel \in BOOLEAN
    /\ size \in Sizes
    /\ image_sample_mode_ \in
          IF renderer = "pt" THEN {"Pixel", "Image"}
          ELSE IF renderer = "volpt" THEN {"Image"} ELSE {"Pixel"}
    /\ \E n \in 1..MaxSpp :
          sched_ = [kind |-> IF renderer = "ptdirect" THEN "foreach"
                             ELSE IF image_sample_mode_ = "Pixel" THEN "spp"
                             ELSE "spi",
                    n |-> n]
    /\ rpc = "start"
    /\ err = NoError
    /\ required = FALSE
    /\ clears = 0
    /\ issued = 0
    /\ window = FullWindow
    /\ taskCount = [p \in Pixels(size) |-> 0]
    /\ outside = 0
    /\ written = FALSE
    /\ processed = 0
    /\ rescales = <<>>
    /\ workers = 1
    /\ seed_ \in IF renderer = "ptdirect" THEN {[some |-> TRUE, v |-> rngSeed_]}
                 ELSE SeedOptions
    /\ NoThreads

\* ------------------------------------------------------------------------
\* Renderer_PT::render and Renderer_VolPT::render
\* ------------------------------------------------------------------------
\* scene_->require_renderable()
Render_require(r) ==
    /\ renderer = r
    /\ rpc = "start"
    /\ required' = TRUE
    /\ err' = require_renderable(num_nodes, camera_node, num_lights, accel)
    /\ rpc' = IF err' = NoError THEN "clear" ELSE "thrown"
    /\ UNCHANGED <<sceneVars, configVars, taskVars, threadVars, clears,
                   processed, rescales, filmOps>>
    /\ UNCHANGED <<assetVars, walkVars, matVars, setupVars>>

\* film_->clear()
Render_clear(r) ==
    /\ renderer = r
    /\ rpc = "clear"
    /\ clears' = clears + 1
    /\ filmOps' = filmOps \cup {FilmOp("clear", FALSE)}
    /\ rpc' = "run"
    /\ UNCHANGED <<sceneVars, configVars, taskVars, threadVars, err, required,
                   processed, rescales>>
    /\ UNCHANGED <<assetVars, walkVars, matVars, setupVars>>

\* A worker starts one task of sched_->run: the sample window.
PT_render_task(t) ==
    /\ renderer = "pt"
    /\ rpc = "run"
    /\ issued < NumTasks(sched_, size)
    /\ Task_begin(t)
    /\ CountTask(PT_window(image_sample_mode_,
                           SchedPixelIndex(sched_, size, issued), size), 1)
    /\ issued' = issued + 1
    /\ UNCHANGED <<sceneVars, configVars, rpc, err, required, clears,
                   processed, rescales, written, filmOps>>
    /\ UNCHANGED <<assetVars, walkVars, matVars, setupVars>>

VolPT_render_task(t) ==
    /\ renderer = "volpt"
    /\ rpc = "run"
    /\ issued < NumTasks(sched_, size)
    /\ Task_begin(t)
    /\ CountTask(FullWindow, 1)
    /\ issued' = issued + 1
    /\ UNCHANGED <<sceneVars, configVars, rpc, err, required, clears,
                   processed, rescales, written, filmOps>>
    /\ UNCHANGED <<assetVars, walkVars, matVars, setupVars>>

\* The walk of a task, with the film_->splat calls it makes, runs to its
\* end.
Render_task_end(r, t) ==
    /\ renderer = r
    /\ t \in running
    /\ running' = running \ {t}
    /\ \E splat \in BOOLEAN :
          /\ written' = (written \/ splat)
          /\ filmOps' = IF splat THEN filmOps \cup {FilmOp("splat", TRUE)}
                        ELSE filmOps
    /\ UNCHANGED <<sceneVars, configVars, rpc, err, required, clears,
                   processed, rescales, issued, window, taskCount, outside,
                   workers, seed_, rng, runStart>>
    /\ UNCHANGED <<assetVars, walkVars, matVars, setupVars>>

\* sched_->run returns once every task has run.
Render_run_return(r) ==
    /\ renderer = r
    /\ rpc = "run"
    /\ issued = NumTasks(sched_, size)
    /\ running = {}
    /\ processed' = SchedProcessed(sched_, size)
    /\ rpc' = "rescale"
    /\ UNCHANGED <<sceneVars, configVars, taskVars, threadVars, err, required,
                   clears, rescales, filmOps>>
    /\ UNCHANGED <<assetVars, walkVars, matVars, setupVars>>

PT_render_rescale ==
    /\ renderer = "pt"
    /\ rpc = "rescale"
    /\ rescales' = Append(rescales,
                          PT_rescale_factor(image_sample_mode_, size, processed))
    /\ filmOps' = filmOps \cup {FilmOp("rescale", FALSE)}
    /\ rpc' = "done"
    /\ UNCHANGED <<sceneVars, configVars, taskVars, threadVars, err, required,
                   clears, processed>>
    /\ UNCHANGED <<assetVars, walkVars, matVars, setupVars>>

VolPT_render_rescale ==
    /\ renderer = "volpt"
    /\ rpc = "rescale"
    /\ rescales' = Append(rescales, VolPT_rescale_factor(size, processed))
    /\ filmOps' = filmOps \cup {FilmOp("rescale", FALSE)}
    /\ rpc' = "done"
    /\ UNCHANGED <<sceneVars, configVars, taskVars, threadVars, err, required,
                   clears, processed>>
    /\ UNCHANGED <<assetVars, walkVars, matVars, setupVars>>

PT_render_require == Render_require("pt")
PT_render_clear == Render_clear("pt")
PT_render_task_begin == \E t \in ThreadIds : PT_render_task(t)
PT_render_task_end == \E t \in ThreadIds : Render_task_end("pt", t)
PT_render_run_return == Render_run_return("pt")
VolPT_render_require == Render_require("volpt")
VolPT_render_clear == Render_clear("volpt")
VolPT_render_task_begin == \E t \in ThreadIds : VolPT_render_task(t)
VolPT_render_task_end == \E t \in ThreadIds : Render_task_end("volpt", t)
VolPT_render_run_return == Render_run_return("volpt")

\* ------------------------------------------------------------------------
\* Renderer_PTDirect::render
\* ------------------------------------------------------------------------
\* A worker starts one call of the parallel::foreach body: spp_ walks from
\* the pixel's window.
PTDirect_render_task(t) ==
    /\ renderer = "ptdirect"
    /\ rpc = "start"
    /\ issued < NumTasks(sched_, size)
    /\ Task_begin(t)
    /\ CountTask(PixelWindow(issued, size), sched_.n)
    /\ issued' = issued + 1
    /\ UNCHANGED <<sceneVars, configVars, rpc, err, required, clears,
                   processed, rescales, written, filmOps>>
    /\ UNCHANGED <<assetVars, walkVars, matVars, setupVars>>

\* The body ends with film_->setPixel(x, y, L).
PTDirect_render_task_end(t) ==
    /\ renderer = "ptdirect"
    /\ t \in running
    /\ running' = running \ {t}
    /\ written' = TRUE
    /\ filmOps' = filmOps \cup {FilmOp("setPixel", TRUE)}
    /\ UNCHANGED <<sceneVars, configVars, rpc, err, required, clears,
                   processed, rescales, issued, window, taskCount, outside,
                   workers, seed_, rng, runStart>>
    /\ UNCHANGED <<assetVars, walkVars, matVars, setupVars>>

PTDirect_render_return ==
    /\ renderer = "ptdirect"
    /\ rpc = "start"
    /\ issued = NumTasks(sched_, size)
    /\ running = {}
    /\ rpc' = "done"
    /\ UNCHANGED <<sceneVars, configVars, taskVars, threadVars, err, required,
                   clears, processed, rescales, filmOps>>
    /\ UNCHANGED <<assetVars, walkVars, matVars, setupVars>>

PTDirect_render_task_begin == \E t \in ThreadIds : PTDirect_render_task(t)
PTDirect_render_task_finish == \E t \in ThreadIds : PTDirect_render_task_end(t)

NextRender ==
    \/ PT_render_require
    \/ PT_render_clear
    \/ PT_render_task_begin
    \/ PT_render_task_end
    \/ PT_render_run_return
    \/ PT_render_rescale
    \/ VolPT_render_require
    \/ VolPT_render_clear
    \/ VolPT_render_task_begin
    \/ VolPT_render_task_end
    \/ VolPT_render_run_return
    \/ VolPT_render_rescale
    \/ PTDirect_render_task_begin
    \/ PTDirect_render_task_finish
    \/ PTDirect_render_return

\* The driver calls render() again in the same process, on the same
\* renderer or on one constructed with another seed. The scheduler keeps its
\* worker threads or starts new ones.
Render_again ==
    /\ rpc = "done"
    /\ rpc' = "start"
    /\ seed_' \in IF renderer = "ptdirect" THEN {seed_} ELSE SeedOptions
    /\ \E keep \in BOOLEAN :
          rng' = IF keep THEN rng ELSE [t \in ThreadIds |-> NoRng]
    /\ runStart' = [t \in ThreadIds |-> NoStart]
    /\ filmOps' = {}
    /\ required' = FALSE
    /\ clears' = 0
    /\ issued' = 0
    /\ window' = FullWindow
    /\ taskCount' = [p \in Pixels(size) |-> 0]
    /\ outside' = 0
    /\ written' = FALSE
    /\ processed' = 0
    /\ rescales' = <<>>
    /\ UNCHANGED <<sceneVars, configVars, err, workers, running>>
    /\ UNCHANGED <<assetVars, walkVars, matVars, setupVars>>

NextThreads == NextRender \/ Render_again

\* ------------------------------------------------------------------------
\* Test assets (testasset::simple, testasset::dependent)
\* ------------------------------------------------------------------------
MaxLoads == 4

\* Initial value of TestAsset_Simple::v.
DefaultV == -1

Names == {"asset1", "asset2"}
PropVals == {1, 42}
\* The properties of a load_asset call: {} or {"v": v}.
Props == {[hasV |-> FALSE, v |-> 0]} \cup [hasV : {TRUE}, v : PropVals]

\* A null pointer.
Null == 0

\* A freshly created, not yet constructed instance at locator "$." + name.
NewInstance(type, name) ==
    [type |-> type, loc |-> name, v |-> DefaultV, other |-> Null,
     alive |-> TRUE]

\* lm::comp::get("$." + name) against a registry.
get(registry, name) == IF name \in DOMAIN registry THEN registry[name] ELSE Null

TestAsset_Simple_construct_mut(inst, prop) == inst

TestAsset_Simple_construct(inst, prop) ==
    IF prop.hasV THEN [inst EXCEPT !.v = prop.v] ELSE inst

TestAsset_Dependent_construct(inst, prop, registry) ==
    [inst EXCEPT !.other = get(registry, "asset1")]

construct(inst, prop, registry) ==
    IF inst.type = "testasset::simple"
    THEN TestAsset_Simple_construct(inst, prop)
    ELSE TestAsset_Dependent_construct(inst, prop, registry)

\* The references an instance hands to a visitor: TestAsset_Dependent
\* visits `other`; a Component without an override visits nothing.
foreach_underlying_mut(inst) == {}

foreach_underlying(inst) ==
    IF inst.type = "testasset::dependent" THEN {"other"} ELSE {}

\* A pointer that can be dereferenced: non-null, to a live instance.
Valid(heap, ptr) == ptr # Null /\ ptr \in DOMAIN heap /\ heap[ptr].alive

\* f() through a pointer: defined when every dereference on the way is valid.
RECURSIVE Defined(_, _)
Defined(heap, ptr) ==
    /\ Valid(heap, ptr)
    /\ heap[ptr].type = "testasset::dependent" => Defined(heap, heap[ptr].other)

RECURSIVE f(_, _)
f(heap, ptr) ==
    IF heap[ptr].type = "testasset::simple"
    THEN heap[ptr].v
    ELSE f(heap, heap[ptr].other) + 1

\* ------------------------------------------------------------------------
\* AssetGroup
\* ------------------------------------------------------------------------
\* Re-resolution of a reference after a replacement: the locator of the
\* referenced instance is looked up again in the registry.
update_weak_ref(heap, registry, ptr) ==
    IF ptr = Null THEN Null ELSE get(registry, heap[ptr].loc)

NoQuery == [name |-> "none", inst |-> Null, f |-> 0, ub |-> FALSE]

\* load_asset(name, type, prop): creates and registers the instance,
\* constructs it, and on a replacement re-resolves the references the other
\* assets hand out through foreach_underlying, then destroys the old one.
load_asset(name, type, prop) ==
    /\ Len(insts) < MaxLoads
    /\ LET k == Len(insts) + 1
           old == assets[name]
           registry == [assets EXCEPT ![name] = k]
           built == construct(NewInstance(type, name), prop, registry)
           heap == Append(insts, built)
           updated ==
               [j \in DOMAIN heap |->
                   IF /\ old # Null
                      /\ j # k
                      /\ heap[j].alive
                      /\ "other" \in foreach_underlying(heap[j])
                   THEN [heap[j] EXCEPT
                            !.other = update_weak_ref(heap, registry, @)]
                   ELSE heap[j]]
       IN  /\ assets' = registry
           /\ insts' = [j \in DOMAIN updated |->
                           IF j = old THEN [updated[j] EXCEPT !.alive = FALSE]
                           ELSE updated[j]]
    /\ lastLoad' = [lastLoad EXCEPT ![name] =
                        [some |-> TRUE, type |-> type, prop |-> prop]]
    /\ load_result' = TRUE
    /\ query' = NoQuery
    /\ UNCHANGED <<renderVars, walkVars, matVars, setupVars>>

LoadSimple ==
    \E name \in Names, prop \in Props :
        load_asset(name, "testasset::simple", prop)

\* testasset::dependent resolves "$.asset1", so it is loaded under another name.
LoadDependent ==
    \E name \in Names \ {"asset1"} :
        load_asset(name, "testasset::dependent", [hasV |-> FALSE, v |-> 0])

\* a = lm::comp::get<TestAsset>("$." + name); a->f()
\* Dereferencing a null or destroyed instance is undefined: any value.
QueryF ==
    \E name \in Names :
        /\ get(assets, name) # Null
        /\ LET a == get(assets, name)
           IN  IF Defined(insts, a)
               THEN query' = [name |-> name, inst |-> a, f |-> f(insts, a),
                              ub |-> FALSE]
               ELSE \E garbage \in PropVals \cup {DefaultV} :
                        query' = [name |-> name, inst |-> a, f |-> garbage,
                                  ub |-> TRUE]
        /\ UNCHANGED <<assets, insts, lastLoad, load_result>>
        /\ UNCHANGED <<renderVars, walkVars, matVars, setupVars>>

NextAsset ==
    \/ LoadSimple
    \/ LoadDependent
    \/ QueryF

NotLoaded ==
    [some |-> FALSE, type |-> "none", prop |-> [hasV |-> FALSE, v |-> 0]]

InitAsset ==
    /\ assets = [n \in Names |-> Null]
    /\ insts = <<>>
    /\ lastLoad = [n \in Names |-> NotLoaded]
    /\ load_result = FALSE
    /\ query = NoQuery

\* A renderer that is not rendering, for the behaviours of the asset group.
IdleRender ==
    /\ renderer = "pt"
    /\ num_nodes = 1
    /\ camera_node = -1
    /\ num_lights = 0
    /\ accel = FALSE
    /\ image_sample_mode_ = "Pixel"
    /\ size = [w |-> 1, h |-> 1]
    /\ sched_ = [kind |-> "spp", n |-> 1]
    /\ rpc = "idle"
    /\ err = NoError
    /\ required = FALSE
    /\ clears = 0
    /\ issued = 0
    /\ window = FullWindow
    /\ taskCount = [p \in Pixels(size) |-> 0]
    /\ outside = 0
    /\ written = FALSE
    /\ processed = 0
    /\ rescales = <<>>
    /\ workers = 1
    /\ seed_ = NoSeed
    /\ NoThreads

\* ------------------------------------------------------------------------
\* Scene queries seen by the walk
\* ------------------------------------------------------------------------
MaxLength == 5
MaxPdf == 1

\* Directions: a positive direction leaves the camera through the film, at
\* the raster position of the same number; a negative one misses the film.
Dirs == {-1, 1, 2}

Nullopt == [some |-> FALSE, rp |-> 0]

\* Scene::raster_position(wo, aspect)
raster_position(wo) == IF wo > 0 THEN [some |-> TRUE, rp |-> wo] ELSE Nullopt

RasterPositions == {raster_position(d).rp : d \in {d \in Dirs : d > 0}}

Pdfs == 0..MaxPdf

\* Results of Scene::sample_ray: nullopt, or a sample with its direction,
\* is_zero(weight) and is_specular(s->sp, s->comp).
NoRaySample == [some |-> FALSE, wo |-> 0, zero |-> FALSE, specular |-> FALSE]
RaySamples ==
    {NoRaySample} \cup [some : {TRUE}, wo : Dirs, zero : BOOLEAN,
                        specular : BOOLEAN]

\* Past the primary ray nothing the walk does depends on the sampled
\* direction: one direction stands for all of them.
SurfaceRaySamples == {r \in RaySamples : r.some => r.wo = 1}

\* Results of Scene::sample_direct_light with the answers of the queries
\* the NEE block goes on to make on it: visible, and then
\* is_specular(sL->sp, sL->comp) and sL->sp.geom.degenerated.
\* sL->comp: a component of the light, or -1 (SurfaceComp::DontCare). The
\* component is looked at only where the densities are queried.
EndpointComps == {-1, 0}
NotSampled ==
    [called |-> FALSE, some |-> FALSE, wo |-> 0, visible |-> FALSE,
     specular |-> FALSE, degenerated |-> FALSE, comp |-> -1]
NoLightSample == [NotSampled EXCEPT !.called = TRUE]
LightSamples ==
    {NoLightSample}
    \cup {[NoLightSample EXCEPT !.some = TRUE, !.wo = d] : d \in Dirs}
    \cup {l \in [called : {TRUE}, some : {TRUE}, wo : Dirs, visible : {TRUE},
                  specular : BOOLEAN, degenerated : BOOLEAN,
                  comp : EndpointComps] :
             (l.specular \/ l.degenerated) => l.comp = -1}

\* Results of Scene::intersect with is_light(*hit).
\* and, for the environment light, geom.infinite. The rays of the first
\* MaxEnvLength iterations are the ones that may leave the scene.
MaxEnvLength == 1
NoHit == [some |-> FALSE, is_light |-> FALSE, infinite |-> FALSE]
Hits ==
    {NoHit}
    \cup [some : {TRUE}, is_light : BOOLEAN, infinite : {FALSE}]
    \cup {[some |-> TRUE, is_light |-> TRUE, infinite |-> TRUE]}

\* ------------------------------------------------------------------------
\* MIS weights, as reduced fractions <<numerator, denominator>>
\* ------------------------------------------------------------------------
RECURSIVE GCD(_, _)
GCD(a, b) == IF b = 0 THEN a ELSE GCD(b, a % b)

One == <<1, 1>>
Zero == <<0, 1>>

\* math::balance_heuristic(p1, p2)
balance_heuristic(p1, p2) ==
    IF p1 = 0 /\ p2 = 0 THEN Zero
    ELSE <<p1 \div GCD(p1, p1 + p2), (p1 + p2) \div GCD(p1, p1 + p2)>>

\* ------------------------------------------------------------------------
\* Float and Vec3 arithmetic
\* ------------------------------------------------------------------------
\* A Float is a fraction <<n, d>> with d >= 0, reduced; d = 0 stands for the
\* non-finite values: <<1, 0>> is +Inf, <<-1, 0>> is -Inf, <<0, 0>> is NaN.
NaN == <<0, 0>>

Abs(n) == IF n < 0 THEN -n ELSE n

Sign(n) == IF n < 0 THEN -1 ELSE IF n > 0 THEN 1 ELSE 0

Norm(n, d) ==
    IF d = 0 THEN <<Sign(n), 0>>
    ELSE IF n = 0 THEN Zero
    ELSE <<n \div GCD(Abs(n), d), d \div GCD(Abs(n), d)>>

IsFinite(a) == a[2] # 0

\* a * b: Inf * 0 and NaN * b are NaN.
Mul(a, b) == Norm(a[1] * b[1], a[2] * b[2])

\* a / b: b / 0 is Inf or NaN, b / Inf is 0 or NaN.
Div(a, b) ==
    IF b[1] < 0 THEN Norm(-(a[1] * b[2]), a[2] * (-b[1]))
    ELSE Norm(a[1] * b[2], a[2] * b[1])

\* a - b
Sub(a, b) == Norm(a[1] * b[2] - b[1] * a[2], a[2] * b[2])

\* a + b: Inf + (-Inf) and NaN + b are NaN.
Add(a, b) ==
    IF a[2] # 0 /\ b[2] # 0 THEN Norm(a[1] * b[2] + b[1] * a[2], a[2] * b[2])
    ELSE IF a[2] # 0 THEN b
    ELSE IF b[2] # 0 THEN a
    ELSE IF a = b THEN a ELSE NaN

\* a < b: false when either side is NaN.
Less(a, b) == a[1] * b[2] < b[1] * a[2]

\* glm::max(x, y) is (x < y) ? y : x
glm_max(x, y) == IF Less(x, y) THEN y ELSE x

\* Vec3 values are triples of Floats.
Vec3(a) == <<a, a, a>>

VMul(v, w) == <<Mul(v[1], w[1]), Mul(v[2], w[2]), Mul(v[3], w[3])>>

VAdd(v, w) == <<Add(v[1], w[1]), Add(v[2], w[2]), Add(v[3], w[3])>>

VScale(v, a) == <<Mul(v[1], a), Mul(v[2], a), Mul(v[3], a)>>

VDiv(v, a) == <<Div(v[1], a), Div(v[2], a), Div(v[3], a)>>

VFinite(v) == IsFinite(v[1]) /\ IsFinite(v[2]) /\ IsFinite(v[3])

\* glm::compMax(v)
compMax(v) == glm_max(glm_max(v[1], v[2]), v[3])

\* Weights of a sample that passed the is_zero test: two coloured ones with
\* no channel in common, and the NaN a quotient f / p with f = p = 0 yields.
Weights == {<<<<1, 2>>, Zero, Zero>>, <<Zero, One, Zero>>, Vec3(NaN)}

\* Values of fs * sL->weight and of fs at a splat.
Contribs == {Vec3(One)}

\* Values of rng.u(), in [0, 1).
Us == {Zero, <<1, 2>>, <<99, 100>>}

\* A film_->splat call: the raster position, the MIS weight, the
\* densities pdf_direct and pdf_direction when the weight queried them, and
\* the value C.
NoSplat ==
    [some |-> FALSE, rp |-> 0, misw |-> Zero, queried |-> FALSE,
     pdf_direct |-> 0, pdf_direction |-> 0, C |-> Vec3(Zero)]
Splat(rp, misw, queried, pd, pdir, C) ==
    [some |-> TRUE, rp |-> rp, misw |-> misw, queried |-> queried,
     pdf_direct |-> pd, pdf_direction |-> pdir, C |-> C]

\* ------------------------------------------------------------------------
\* Renderer_PT::render: the body of the task
\* ------------------------------------------------------------------------
\* `nee`: whether the NEE edge is sampled at this vertex.
PT_nee_mut(mode, image_mode, len, specular) ==
    IF mode = "Naive" THEN FALSE ELSE ~specular

PT_nee(mode, image_mode, len, specular) ==
    IF mode = "Naive" THEN FALSE
    ELSE IF image_mode = "Pixel" THEN len > 0 /\ ~specular
    ELSE ~specular

\* `rp` of the NEE block.
PT_nee_rp(len, l, cached) ==
    IF len = 0 THEN raster_position(-l.wo)
    ELSE [some |-> TRUE, rp |-> cached]

\* `directL`: the light can be sampled by the direction strategy.
PT_directL(l) == ~l.specular /\ ~l.degenerated

\* `misw` of the NEE block; pd and pdir are the values of
\* pdf_direct(s->sp, sL->sp, sL->comp, sL->wo) and
\* pdf_direction(s->sp, s->comp, wi, wo).
PT_nee_misw_mut(mode, l, pd, pdir) ==
    IF mode = "NEE" THEN One
    ELSE balance_heuristic(pd, pdir)

PT_nee_misw(mode, l, pd, pdir) ==
    IF mode = "NEE" THEN One
    ELSE IF ~PT_directL(l) THEN One
    ELSE balance_heuristic(pd, pdir)

\* `direct`: whether the light hit by the continuation ray contributes.
PT_direct_mut(mode, n, h) == h.is_light

PT_direct(mode, n, h) ==
    IF mode = "NEE" THEN ~n /\ h.is_light ELSE h.is_light

\* `misw` of the direct hit; pdir and pd are the values of
\* pdf_direction(s->sp, s->comp, wi, s->wo) and
\* pdf_direct(s->sp, spL, -1, woL).
PT_direct_misw(mode, n, pdir, pd) ==
    IF mode = "Naive" THEN One
    ELSE IF ~n THEN One
    ELSE balance_heuristic(pdir, pd)

\* `C` of the NEE block and of the direct hit: throughput * contrb * misw,
\* contrb being fs * sL->weight, respectively fs.
PT_C(t, contrb, misw) == VScale(VMul(t, contrb), misw)

\* Russian roulette: `q`.
PT_rr_q(t) == glm_max(<<1, 5>>, Sub(One, compMax(t)))

\* Russian roulette of the iteration at length len with throughput t and
\* u = rng.u(): whether it is applied, q, whether the walk ends, and the
\* throughput it leaves.
NoRoulette ==
    [applied |-> FALSE, q |-> Zero, u |-> Zero, end |-> FALSE,
     before |-> Vec3(Zero), after |-> Vec3(Zero)]

PT_rr_mut(len, t, u) ==
    IF len > 2
    THEN [applied |-> TRUE, q |-> PT_rr_q(t), u |-> u,
          end |-> Less(u, PT_rr_q(t)), before |-> t,
          after |-> IF Less(u, PT_rr_q(t)) THEN t
                    ELSE VDiv(t, Sub(One, PT_rr_q(t)))]
    ELSE [NoRoulette EXCEPT !.before = t, !.after = t]

PT_rr(len, t, u) ==
    IF len > 3
    THEN [applied |-> TRUE, q |-> PT_rr_q(t), u |-> u,
          end |-> Less(u, PT_rr_q(t)), before |-> t,
          after |-> IF Less(u, PT_rr_q(t)) THEN t
                    ELSE VDiv(t, Sub(One, PT_rr_q(t)))]
    ELSE [NoRoulette EXCEPT !.before = t, !.after = t]

walkRest ==
    <<renderVars, assetVars, pt_mode_, max_length_, volVars, matVars, setupVars>>

\* The loop condition of for (...; length < max_length_; length++).
PT_loop_mut(len, max) == len <= max

PT_loop(len, max) == len < max

\* The loop condition is false: the walk leaves the loop.
PT_walk_end ==
    /\ wpc = "sample_ray"
    /\ ~PT_loop(length, max_length_)
    /\ wpc' = "done"
    /\ UNCHANGED <<length, wi, sp, raster_pos, s, nee, sL, hit, neeSplat,
                   directSplat, derefEmpty, throughput, rr>>
    /\ UNCHANGED walkRest

\* sample_ray and, for the primary ray, the raster position. The raster
\* position is dereferenced unchecked: when it is empty the read is
\* undefined, and the task crashes or goes on with any value.
PT_walk_sample_ray ==
    /\ wpc = "sample_ray"
    /\ PT_loop(length, max_length_)
    /\ \E r \in IF length = 0 THEN RaySamples ELSE SurfaceRaySamples :
          /\ s' = r
          /\ IF ~r.some \/ r.zero
             THEN /\ wpc' = "done"
                  /\ UNCHANGED <<raster_pos, derefEmpty>>
             ELSE IF length = 0
             THEN IF raster_position(r.wo).some
                  THEN /\ raster_pos' = raster_position(r.wo).rp
                       /\ wpc' = "nee"
                       /\ UNCHANGED derefEmpty
                  ELSE /\ derefEmpty' = TRUE
                       /\ \/ /\ wpc' = "crashed"
                             /\ UNCHANGED raster_pos
                          \/ /\ wpc' = "nee"
                             /\ raster_pos' \in RasterPositions \cup {0}
             ELSE /\ wpc' = "nee"
                  /\ UNCHANGED <<raster_pos, derefEmpty>>
    /\ UNCHANGED <<length, wi, sp, nee, sL, hit, neeSplat, directSplat,
                   throughput, rr>>
    /\ UNCHANGED walkRest

\* The NEE block. The densities are queried only on the path that
\* reaches balance_heuristic.
PT_walk_nee ==
    /\ wpc = "nee"
    /\ nee' = PT_nee(pt_mode_, image_sample_mode_, length, s.specular)
    /\ IF nee'
       THEN \E l \in {l \in LightSamples : pt_mode_ = "NEE" => l.comp = -1} :
               /\ sL' = l
               /\ IF ~l.some THEN neeSplat' = NoSplat
                  ELSE IF ~l.visible THEN neeSplat' = NoSplat
                  ELSE IF ~PT_nee_rp(length, l, raster_pos).some
                  THEN neeSplat' = NoSplat
                  ELSE LET queried == pt_mode_ # "NEE" /\ PT_directL(l)
                       IN  \E pd, pdir \in IF queried THEN Pdfs ELSE {0} :
                           \E contrb \in Contribs :
                              neeSplat' =
                                 Splat(PT_nee_rp(length, l, raster_pos).rp,
                                       PT_nee_misw(pt_mode_, l, pd, pdir),
                                       queried, pd, pdir,
                                       PT_C(throughput, contrb,
                                            PT_nee_misw(pt_mode_, l, pd,
                                                        pdir)))
       ELSE UNCHANGED <<sL, neeSplat>>
    /\ wpc' = "intersect"
    /\ UNCHANGED <<length, wi, sp, raster_pos, s, hit, directSplat,
                   derefEmpty, throughput, rr>>
    /\ UNCHANGED walkRest

\* The assert expression of RaySample::ray(), !sp.geom.infinite, for the
\* sample of the iteration: past the primary ray s->sp is the interaction
\* the sample was drawn at.
RaySample_ray_asserted(at) == at # "infinite"

\* intersect(s->ray()); the walk ends when nothing is hit, and otherwise
\* throughput *= s->weight. When the assertion of ray() fails the task
\* aborts, or, in a build without assertions, goes on with a ray from the
\* position field of a point at infinity.
PT_walk_intersect ==
    /\ wpc = "intersect"
    /\ \/ /\ ~RaySample_ray_asserted(sp)
          /\ wpc' = "crashed"
          /\ UNCHANGED <<hit, throughput>>
       \/ \E h \in {h \in Hits : h.infinite => length < MaxEnvLength} :
             /\ hit' = h
             /\ IF h.some
                THEN /\ wpc' = "direct"
                     /\ \E weight \in Weights :
                           throughput' = VMul(throughput, weight)
                ELSE /\ wpc' = "done"
                     /\ UNCHANGED throughput
    /\ UNCHANGED <<length, wi, sp, raster_pos, s, nee, sL, neeSplat,
                   directSplat, derefEmpty, rr>>
    /\ UNCHANGED walkRest

\* The value the scene returns for a density the direct hit queries, given
\* the value `known` it returned in the NEE block of the iteration:
\* the same value when `same` holds, the arguments being the same.
Scene_pdf(queried, same, known) ==
    IF ~queried THEN {0} ELSE IF same THEN {known} ELSE Pdfs

\* The continuation ray runs along the NEE edge: s->wo = -sL->wo.
PT_same_edge == neeSplat.some /\ neeSplat.queried /\ sL.wo = -s.wo

\* The last two arguments of the pdf_direct of the direct hit are -1 and
\* woL; those of the NEE block are sL->comp and sL->wo.
PT_same_endpoint == PT_same_edge /\ sL.comp = -1

\* Contribution of a light hit by the continuation ray.
PT_walk_direct ==
    /\ wpc = "direct"
    /\ IF PT_direct(pt_mode_, nee, hit)
       THEN LET queried == pt_mode_ # "Naive" /\ nee
            IN  \E pdir \in Scene_pdf(queried, PT_same_edge,
                                      neeSplat.pdf_direction),
                   pd \in Scene_pdf(queried, PT_same_endpoint,
                                    neeSplat.pdf_direct) :
                \E contrb \in Contribs :
                   directSplat' =
                      Splat(raster_pos,
                            PT_direct_misw(pt_mode_, nee, pdir, pd),
                            queried, pd, pdir,
                            PT_C(throughput, contrb,
                                 PT_direct_misw(pt_mode_, nee, pdir, pd)))
       ELSE directSplat' = NoSplat
    /\ wpc' = "rr"
    /\ UNCHANGED <<length, wi, sp, raster_pos, s, nee, sL, hit, neeSplat,
                   derefEmpty, throughput, rr>>
    /\ UNCHANGED walkRest

\* Russian roulette: past length 3 the walk ends when rng.u() < q, and the
\* throughput of a surviving walk is divided by 1 - q.
PT_walk_rr ==
    /\ wpc = "rr"
    /\ \E u \in IF length > 3 THEN Us ELSE {Zero} :
          rr' = PT_rr(length, throughput, u)
    /\ throughput' = rr'.after
    /\ wpc' = IF rr'.end THEN "done" ELSE "update"
    /\ UNCHANGED <<length, wi, sp, raster_pos, s, nee, sL, hit, neeSplat,
                   directSplat, derefEmpty>>
    /\ UNCHANGED walkRest

\* wi = -s->wo; sp = *hit; length++. The locals of the iteration go out of
\* scope.
PT_walk_update ==
    /\ wpc = "update"
    /\ wpc' = "sample_ray"
    /\ wi' = -s.wo
    /\ sp' = IF hit.infinite THEN "infinite" ELSE "surface"
    /\ length' = length + 1
    /\ s' = NoRaySample
    /\ nee' = FALSE
    /\ sL' = NotSampled
    /\ hit' = NoHit
    /\ neeSplat' = NoSplat
    /\ directSplat' = NoSplat
    /\ rr' = NoRoulette
    /\ UNCHANGED <<raster_pos, derefEmpty, throughput>>
    /\ UNCHANGED walkRest

NextWalk ==
    \/ PT_walk_end
    \/ PT_walk_sample_ray
    \/ PT_walk_nee
    \/ PT_walk_intersect
    \/ PT_walk_direct
    \/ PT_walk_rr
    \/ PT_walk_update

\* ------------------------------------------------------------------------
\* Renderer_VolPT: construct and the body of the task
\* ------------------------------------------------------------------------
MaxVerts == 7

NoProp == [some |-> FALSE, v |-> Zero]

\* Values of the "rr_prob" property.
RrProbProps == {NoProp, [some |-> TRUE, v |-> <<1, 2>>]}

\* json::value<Float>(prop, "rr_prob", .2_f)
VolPT_construct_rr_prob(prop) == IF prop.some THEN prop.v ELSE <<1, 5>>

\* Component indices: component 1 is a delta component.
Comps == {0, 1}

\* Values of ComponentSample::weight: one component, or one of two picked
\* with probability 1/2.
CompWeights == {Vec3(One), Vec3(<<2, 1>>)}

\* path::is_specular_component(scene_, sp, comp)
is_specular_component(c) == c = 1

\* Results of path::sample_distance with is_light(sd->sp) and
\* sd->sp.geom.infinite.
NoDistanceSample == [some |-> FALSE, is_light |-> FALSE, infinite |-> FALSE]
DistanceSamples ==
    {NoDistanceSample}
    \cup [some : {TRUE}, is_light : BOOLEAN, infinite : BOOLEAN]

\* Whether the emission of the interaction reached by the sampled edge is
\* accumulated.
VolPT_emissive_mut(samplable, d) == d.is_light

VolPT_emissive(samplable, d) == ~samplable /\ d.is_light

\* Russian roulette: `q`.
VolPT_rr_q_mut(rrp, t) == glm_max(<<1, 5>>, Sub(One, compMax(t)))

VolPT_rr_q(rrp, t) == glm_max(rrp, Sub(One, compMax(t)))

\* Russian roulette of the iteration at num_verts = nv.
VolPT_rr(nv, rrp, t, u) ==
    IF nv > 5
    THEN [applied |-> TRUE, q |-> VolPT_rr_q(rrp, t), u |-> u,
          end |-> Less(u, VolPT_rr_q(rrp, t)), before |-> t,
          after |-> IF Less(u, VolPT_rr_q(rrp, t)) THEN t
                    ELSE VDiv(t, Sub(One, VolPT_rr_q(rrp, t)))]
    ELSE [NoRoulette EXCEPT !.before = t, !.after = t]

volRest ==
    <<renderVars, assetVars, pt_mode_, max_length_, length, nee, hit,
      prop_rr_prob, max_verts_, rr_prob_, matVars, setupVars>>

\* for (...; num_verts < max_verts_; ...) leaves the loop.
VolPT_walk_end ==
    /\ wpc = "vol_nee"
    /\ num_verts >= max_verts_
    /\ wpc' = "done"
    /\ UNCHANGED <<wi, sp, raster_pos, s, sL, neeSplat, directSplat,
                   derefEmpty, throughput, rr, num_verts, comp,
                   samplable_by_nee, sd>>
    /\ UNCHANGED volRest

\* samplable_by_nee and the NEE block.
VolPT_walk_nee ==
    /\ wpc = "vol_nee"
    /\ num_verts < max_verts_
    /\ samplable_by_nee' = ~is_specular_component(comp)
    /\ IF samplable_by_nee'
       THEN \E l \in {l \in LightSamples : /\ ~l.specular /\ ~l.degenerated
                                            /\ l.comp = -1} :
               /\ sL' = l
               /\ IF ~l.some THEN neeSplat' = NoSplat
                  ELSE IF num_verts = 1 /\ ~raster_position(-l.wo).some
                  THEN neeSplat' = NoSplat
                  ELSE IF ~l.visible THEN neeSplat' = NoSplat
                  ELSE \E fs_zero \in BOOLEAN, contrb \in Contribs :
                          neeSplat' =
                             IF fs_zero THEN NoSplat
                             ELSE Splat(IF num_verts = 1
                                        THEN raster_position(-l.wo).rp
                                        ELSE raster_pos,
                                        One, FALSE, 0, 0,
                                        PT_C(throughput, contrb, One))
       ELSE UNCHANGED <<sL, neeSplat>>
    /\ wpc' = "vol_direction"
    /\ UNCHANGED <<wi, sp, raster_pos, s, directSplat, derefEmpty, throughput,
                   rr, num_verts, comp, sd>>
    /\ UNCHANGED volRest

\* sample_direction and, at the first vertex, the raster position, which
\* is dereferenced unchecked.
VolPT_walk_direction ==
    /\ wpc = "vol_direction"
    /\ \E r \in {r \in IF num_verts = 1 THEN RaySamples
                       ELSE SurfaceRaySamples : ~r.zero /\ ~r.specular} :
          /\ s' = r
          /\ IF ~r.some
             THEN /\ wpc' = "done"
                  /\ UNCHANGED <<raster_pos, derefEmpty>>
             ELSE IF num_verts = 1
             THEN IF raster_position(r.wo).some
                  THEN /\ raster_pos' = raster_position(r.wo).rp
                       /\ wpc' = "vol_distance"
                       /\ UNCHANGED derefEmpty
                  ELSE /\ derefEmpty' = TRUE
                       /\ \/ /\ wpc' = "crashed"
                             /\ UNCHANGED raster_pos
                          \/ /\ wpc' = "vol_distance"
                             /\ raster_pos' \in RasterPositions \cup {0}
             ELSE /\ wpc' = "vol_distance"
                  /\ UNCHANGED <<raster_pos, derefEmpty>>
    /\ UNCHANGED <<wi, sp, sL, neeSplat, directSplat, throughput, rr,
                   num_verts, comp, samplable_by_nee, sd>>
    /\ UNCHANGED volRest

\* sample_distance, throughput *= s->weight * sd->weight, the emissive
\* interaction, and the end of the walk at the environment.
VolPT_at_infinity_mut(d) == FALSE

\* if (sd->sp.geom.infinite) break;
VolPT_at_infinity(d) == d.infinite

VolPT_walk_distance ==
    /\ wpc = "vol_distance"
    /\ \E d \in DistanceSamples :
          /\ sd' = d
          /\ IF ~d.some
             THEN /\ wpc' = "done"
                  /\ UNCHANGED <<throughput, directSplat>>
             ELSE /\ \E weight \in Weights :
                        throughput' = VMul(throughput, weight)
                  /\ \E Le \in Contribs :
                        directSplat' =
                           IF VolPT_emissive(samplable_by_nee, d)
                           THEN Splat(raster_pos, One, FALSE, 0, 0,
                                      PT_C(throughput', Le, One))
                           ELSE NoSplat
                  /\ wpc' = IF VolPT_at_infinity(d) THEN "done"
                            ELSE "vol_rr"
    /\ UNCHANGED <<wi, sp, raster_pos, s, sL, neeSplat, derefEmpty, rr,
                   num_verts, comp, samplable_by_nee>>
    /\ UNCHANGED volRest

\* Russian roulette.
VolPT_walk_rr ==
    /\ wpc = "vol_rr"
    /\ \E u \in IF num_verts > 5 THEN Us ELSE {Zero} :
          rr' = VolPT_rr(num_verts, rr_prob_, throughput, u)
    /\ throughput' = rr'.after
    /\ wpc' = IF rr'.end THEN "done" ELSE "vol_update"
    /\ UNCHANGED <<wi, sp, raster_pos, s, sL, neeSplat, directSplat,
                   derefEmpty, num_verts, comp, samplable_by_nee, sd>>
    /\ UNCHANGED volRest

\* sample_component, throughput *= s_comp.weight, and the update; the
\* locals of the iteration go out of scope.
VolPT_walk_update ==
    /\ wpc = "vol_update"
    /\ comp' \in Comps
    /\ \E weight \in CompWeights : throughput' = VMul(throughput, weight)
    /\ wi' = -s.wo
    /\ sp' = "surface"
    /\ num_verts' = num_verts + 1
    /\ wpc' = "vol_nee"
    /\ s' = NoRaySample
    /\ sL' = NotSampled
    /\ sd' = NoDistanceSample
    /\ samplable_by_nee' = FALSE
    /\ neeSplat' = NoSplat
    /\ directSplat' = NoSplat
    /\ rr' = NoRoulette
    /\ UNCHANGED <<raster_pos, derefEmpty>>
    /\ UNCHANGED volRest

NextVolPT ==
    \/ VolPT_walk_end
    \/ VolPT_walk_nee
    \/ VolPT_walk_direction
    \/ VolPT_walk_distance
    \/ VolPT_walk_rr
    \/ VolPT_walk_update

\* No task of Renderer_VolPT is running.
IdleVolPT ==
    /\ prop_rr_prob = NoProp
    /\ max_verts_ = 0
    /\ rr_prob_ = VolPT_construct_rr_prob(NoProp)
    /\ num_verts = 1
    /\ comp = 0
    /\ samplable_by_nee = FALSE
    /\ sd = NoDistanceSample

\* The start of the walk of a task of a constructed Renderer_VolPT.
InitVolWalk ==
    /\ pt_mode_ = "MIS"
    /\ max_length_ = 0
    /\ wpc = "vol_nee"
    /\ length = 0
    /\ wi = 0
    /\ sp = "camera"
    /\ raster_pos = 0
    /\ s = NoRaySample
    /\ nee = FALSE
    /\ sL = NotSampled
    /\ hit = NoHit
    /\ neeSplat = NoSplat
    /\ directSplat = NoSplat
    /\ derefEmpty = FALSE
    /\ \E weight \in CompWeights : throughput = VMul(Vec3(One), weight)
    /\ rr = NoRoulette
    /\ prop_rr_prob \in RrProbProps
    /\ max_verts_ \in {0, 1, 2, MaxVerts}
    /\ rr_prob_ = VolPT_construct_rr_prob(prop_rr_prob)
    /\ num_verts = 1
    /\ comp \in Comps
    /\ samplable_by_nee = FALSE
    /\ sd = NoDistanceSample

\* Renderer_VolPT::render inside sched_->run.
RunningVolRender ==
    /\ renderer = "volpt"
    /\ num_nodes = 2
    /\ camera_node = 1
    /\ num_lights = 1
    /\ accel = TRUE
    /\ image_sample_mode_ = "Image"
    /\ size = [w |-> 1, h |-> 1]
    /\ sched_ = [kind |-> "spi", n |-> 1]
    /\ rpc = "run"
    /\ err = NoError
    /\ required = TRUE
    /\ clears = 1
    /\ issued = 0
    /\ window = FullWindow
    /\ taskCount = [p \in Pixels(size) |-> 0]
    /\ outside = 0
    /\ written = FALSE
    /\ processed = 0
    /\ rescales = <<>>
    /\ workers = 1
    /\ seed_ = NoSeed
    /\ NoThreads

\* No task is running.
IdleWalk ==
    /\ pt_mode_ = "MIS"
    /\ max_length_ = 0
    /\ wpc = "idle"
    /\ length = 0
    /\ wi = 0
    /\ sp = "camera_term"
    /\ raster_pos = 0
    /\ s = NoRaySample
    /\ nee = FALSE
    /\ sL = NotSampled
    /\ hit = NoHit
    /\ neeSplat = NoSplat
    /\ directSplat = NoSplat
    /\ derefEmpty = FALSE
    /\ throughput = Vec3(One)
    /\ rr = NoRoulette
    /\ IdleVolPT

\* The start of a task of a constructed Renderer_PT.
InitWalk ==
    /\ pt_mode_ \in {"Naive", "NEE", "MIS"}
    /\ max_length_ \in {-1, 0, 1, MaxLength}
    /\ wpc = "sample_ray"
    /\ length = 0
    /\ wi = 0
    /\ sp = "camera_term"
    /\ raster_pos = 0
    /\ s = NoRaySample
    /\ nee = FALSE
    /\ sL = NotSampled
    /\ hit = NoHit
    /\ neeSplat = NoSplat
    /\ directSplat = NoSplat
    /\ derefEmpty = FALSE
    /\ throughput = Vec3(One)
    /\ rr = NoRoulette
    /\ IdleVolPT

\* Renderer_PT::render inside sched_->run, in either image sample mode.
RunningRender ==
    /\ renderer = "pt"
    /\ num_nodes = 2
    /\ camera_node = 1
    /\ num_lights = 1
    /\ accel = TRUE
    /\ image_sample_mode_ \in {"Pixel", "Image"}
    /\ size = [w |-> 1, h |-> 1]
    /\ sched_ = [kind |-> IF image_sample_mode_ = "Pixel" THEN "spp" ELSE "spi",
                 n |-> 1]
    /\ rpc = "run"
    /\ err = NoError
    /\ required = TRUE
    /\ clears = 1
    /\ issued = 0
    /\ window = FullWindow
    /\ taskCount = [p \in Pixels(size) |-> 0]
    /\ outside = 0
    /\ written = FALSE
    /\ processed = 0
    /\ rescales = <<>>
    /\ workers = 1
    /\ seed_ = NoSeed
    /\ NoThreads

\* ------------------------------------------------------------------------
\* Materials
\* ------------------------------------------------------------------------
\* Directions and normals are integer vectors <<x, z>> in the plane of
\* incidence.
Directions == {<<1, 1>>, <<-1, 1>>, <<1, -1>>, <<-1, -1>>}
Normals == {<<0, 1>>}

dot(a, b) == a[1] * b[1] + a[2] * b[2]

\* math::reflection(w, n) is 2 (w . n) n - w
reflection(w, n) ==
    <<2 * dot(w, n) * n[1] - w[1], 2 * dot(w, n) * n[2] - w[2]>>

\* geom.opposite(wi, wo): wi and wo lie on opposite sides of the surface.
opposite(g, w1, w2) == Sign(dot(w2, g.n)) # Sign(dot(w1, g.n))

\* SurfaceComp::DontCare
DontCare == -1

\* Component indices of the mixture materials.
Comp_Diffuse == 0
Comp_Glossy == 1
Comp_Alpha == 2

\* Reflectances Kd and Ks at a point, with maximum channel 0, 1/4 and 3/4,
\* and values of the alpha texture there.
Reflectances ==
    {Vec3(Zero), <<<<1, 4>>, Zero, <<1, 8>>>>, <<Zero, <<3, 4>>, <<1, 2>>>>}
Alphas == {Zero, <<1, 2>>, One}

\* Values of rng.u(): the midpoints of the four quarters of [0, 1). Every
\* threshold a selection compares u with lies on a quarter boundary, so the
\* share of the values that take a branch is the probability of the branch.
Grid == {<<1, 8>>, <<3, 8>>, <<5, 8>>, <<7, 8>>}

\* Densities and values an underlying material answers.
LobePdfs == {Zero, <<1, 2>>}
LobeEvals == {Vec3(Zero), Vec3(One)}

\* The empty optional, and the MaterialDirectionSample {wo, comp, weight}
\* of the specular materials. The mixture materials return
\* {wo, weight, specular}.
NoDirectionSample == [some |-> FALSE]
MaterialDirectionSample(w, c, weight) ==
    [some |-> TRUE, wo |-> w, comp |-> c, weight |-> weight]

\* --- Material_WavefrontObj_Mixture_Without_Alpha -------------------------
Mixture_Without_Alpha_diffuse_selection_weight(g) ==
    LET weight_d == compMax(g.Kd)
        weight_g == compMax(g.Ks)
    IN  IF weight_d = Zero /\ weight_g = Zero THEN One
        ELSE Div(weight_d, Add(weight_d, weight_g))

Mixture_Without_Alpha_sample_comp_select(u, g) ==
    IF Less(u, Mixture_Without_Alpha_diffuse_selection_weight(g))
    THEN Comp_Diffuse
    ELSE Comp_Glossy

Mixture_Without_Alpha_pdf_comp_select(g, c) ==
    IF c = Comp_Diffuse
    THEN Mixture_Without_Alpha_diffuse_selection_weight(g)
    ELSE Sub(One, Mixture_Without_Alpha_diffuse_selection_weight(g))

\* `l` holds what material_by_comp(c)->pdf_direction and ->eval answer.
Mixture_Without_Alpha_pdf_direction_mut(g, l) ==
    Add(l[Comp_Diffuse].p, l[Comp_Glossy].p)
Mixture_Without_Alpha_pdf_direction(g, l) ==
    Add(Add(Zero,
            Mul(Mixture_Without_Alpha_pdf_comp_select(g, Comp_Diffuse),
                l[Comp_Diffuse].p)),
        Mul(Mixture_Without_Alpha_pdf_comp_select(g, Comp_Glossy),
            l[Comp_Glossy].p))

Mixture_Without_Alpha_eval(g, l) ==
    VAdd(VAdd(Vec3(Zero), l[Comp_Diffuse].f), l[Comp_Glossy].f)

\* `sub` is what material->sample_direction returned.
Mixture_Without_Alpha_sample_direction(g, l, sub) ==
    IF ~sub.some THEN NoDirectionSample
    ELSE LET f_mixture == Mixture_Without_Alpha_eval(g, l)
             p_maginal == Mixture_Without_Alpha_pdf_direction(g, l)
         IN  [some |-> TRUE, wo |-> sub.wo,
              weight |-> VDiv(f_mixture, p_maginal), specular |-> FALSE]

\* --- Material_WavefrontObj_Mixture ---------------------------------------
is_specular_comp(c) == c = Comp_Alpha

Mixture_diffuse_selection_weight(g) ==
    LET weight_d == compMax(g.Kd)
        weight_g == compMax(g.Ks)
    IN  IF weight_d = Zero /\ weight_g = Zero THEN One
        ELSE Div(weight_d, Add(weight_d, weight_g))

\* mask_tex_->eval_alpha(geom.t), or 1 without a mask texture.
eval_alpha(g) == g.alpha

\* `u1` and `u2` are the first and the second rng.u().
Mixture_sample_comp_select_mut(u1, u2, g) ==
    IF Less(u1, eval_alpha(g)) THEN Comp_Alpha
    ELSE IF Less(u2, Mixture_diffuse_selection_weight(g)) THEN Comp_Diffuse
    ELSE Comp_Glossy
Mixture_sample_comp_select(u1, u2, g) ==
    IF Less(eval_alpha(g), u1) THEN Comp_Alpha
    ELSE IF Less(u2, Mixture_diffuse_selection_weight(g)) THEN Comp_Diffuse
    ELSE Comp_Glossy

Mixture_pdf_comp_select(g, c) ==
    IF c = Comp_Alpha THEN Sub(One, eval_alpha(g))
    ELSE IF c = Comp_Diffuse
    THEN Mul(eval_alpha(g), Mixture_diffuse_selection_weight(g))
    ELSE Mul(eval_alpha(g), Sub(One, Mixture_diffuse_selection_weight(g)))

eval_mix_weight(g, c) ==
    IF c = Comp_Alpha THEN Sub(One, eval_alpha(g)) ELSE eval_alpha(g)

Mixture_eval_pdf(g, l, c) == Mul(Mixture_pdf_comp_select(g, c), l[c].p)

Mixture_pdf_direction_mut(g, l, w1, w2) ==
    Add(Add(Mixture_eval_pdf(g, l, Comp_Alpha),
            Mixture_eval_pdf(g, l, Comp_Diffuse)),
        Mixture_eval_pdf(g, l, Comp_Glossy))
Mixture_pdf_direction(g, l, w1, w2) ==
    IF opposite(g, w1, w2) THEN Mixture_eval_pdf(g, l, Comp_Alpha)
    ELSE Add(Add(Zero, Mixture_eval_pdf(g, l, Comp_Diffuse)),
             Mixture_eval_pdf(g, l, Comp_Glossy))

Mixture_eval_f(g, l, c) == VScale(l[c].f, eval_mix_weight(g, c))

Mixture_eval(g, l, w1, w2) ==
    IF opposite(g, w1, w2) THEN Mixture_eval_f(g, l, Comp_Alpha)
    ELSE VAdd(VAdd(Vec3(Zero), Mixture_eval_f(g, l, Comp_Diffuse)),
              Mixture_eval_f(g, l, Comp_Glossy))

\* `c` is the selected component, `sub` what its material sampled.
Mixture_sample_direction(g, l, c, w1, sub) ==
    IF ~sub.some THEN NoDirectionSample
    ELSE LET f_mixture == Mixture_eval(g, l, w1, sub.wo)
             p_maginal == Mixture_pdf_direction(g, l, w1, sub.wo)
             C == VDiv(f_mixture, p_maginal)
         IN  [some |-> TRUE, wo |-> sub.wo, weight |-> C,
              specular |-> is_specular_comp(c)]

\* --- Material_Mirror, Material_Mask, Material_Glass ----------------------
Mirror_is_specular == TRUE

Mirror_sample_direction(g, w1) ==
    MaterialDirectionSample(reflection(w1, g.n), DontCare, Vec3(One))

Mirror_pdf_direction(g, w1, w2) == Zero

Mirror_eval(g, w1, w2) == Vec3(Zero)

Mask_is_specular == TRUE

Mask_sample_direction(g, w1) ==
    MaterialDirectionSample(<<-w1[1], -w1[2]>>, DontCare, Vec3(One))

Mask_pdf_direction(g, w1, w2) == Zero

Mask_eval(g, w1, w2) == Vec3(Zero)

Glass_is_specular == TRUE

\* Values of "Ni".
Nis == {<<4, 3>>, <<3, 4>>, One}

\* Unit directions with rational coordinates, for Material_Glass: normal,
\* oblique and grazing incidence, on either side of the surface.
UnitDirections ==
    {<<x, z>> : x \in {Zero}, z \in {One, <<-1, 1>>}}
    \cup {<<x, z>> : x \in {<<3, 5>>}, z \in {<<4, 5>>, <<-4, 5>>}}
    \cup {<<x, z>> : x \in {<<4, 5>>}, z \in {<<3, 5>>, <<-3, 5>>}}
    \cup {<<One, Zero>>}

ToFloat(v) == <<Norm(v[1], 1), Norm(v[2], 1)>>

fdot(a, b) == Add(Mul(a[1], b[1]), Mul(a[2], b[2]))

Negate(v) == <<Sub(Zero, v[1]), Sub(Zero, v[2])>>

\* std::sqrt on the squares of the fractions that occur.
Roots == {Zero, <<3, 5>>, <<4, 5>>, One}
HasRoot(a) == \E r \in Roots : Mul(r, r) = a
Sqrt(a) == CHOOSE r \in Roots : Mul(r, r) = a

\* 1 - eta^2 (1 - (wi . n)^2)
Discriminant(w, n, eta) ==
    Sub(One, Mul(Mul(eta, eta), Sub(One, Mul(fdot(w, n), fdot(w, n)))))

\* math::refraction(wi, n, eta): {wt, total}, with
\* wt = -eta wi + (eta (wi . n) - sqrt(1 - eta^2 (1 - (wi . n)^2))) n and
\* total set when the discriminant is negative.
refraction(w, n, eta) ==
    IF Less(Discriminant(w, n, eta), Zero)
    THEN [wt |-> <<NaN, NaN>>, total |-> TRUE]
    ELSE LET k == Sub(Mul(eta, fdot(w, n)), Sqrt(Discriminant(w, n, eta)))
         IN  [wt |-> <<Add(Mul(Sub(Zero, eta), w[1]), Mul(k, n[1])),
                       Add(Mul(Sub(Zero, eta), w[2]), Mul(k, n[2]))>>,
              total |-> FALSE]

\* math::reflection on unit directions.
freflection(w, n) ==
    <<Sub(Mul(Mul(<<2, 1>>, fdot(w, n)), n[1]), w[1]),
      Sub(Mul(Mul(<<2, 1>>, fdot(w, n)), n[2]), w[2])>>

\* std::pow(x, 5)
Pow5(x) == Mul(Mul(Mul(Mul(x, x), x), x), x)

Glass_in(g, w1) == Less(Zero, fdot(w1, ToFloat(g.n)))

Glass_n(g, w1) ==
    IF Glass_in(g, w1) THEN ToFloat(g.n) ELSE Negate(ToFloat(g.n))

Glass_eta(Ni, g, w1) == IF Glass_in(g, w1) THEN Div(One, Ni) ELSE Ni

Glass_fresnel_mut(Ni, g, w1, wt) ==
    LET r == Div(Sub(One, Ni), Add(One, Ni))
    IN  Mul(r, r)
Glass_fresnel(Ni, g, w1, wt) ==
    LET cos == IF Glass_in(g, w1) THEN fdot(w1, ToFloat(g.n))
               ELSE fdot(wt, ToFloat(g.n))
        r == Div(Sub(One, Ni), Add(One, Ni))
        r2 == Mul(r, r)
    IN  Add(r2, Mul(Sub(One, r2), Pow5(Sub(One, cos))))

\* Fr of sample_direction.
Glass_Fr(Ni, g, w1) ==
    LET rf == refraction(w1, Glass_n(g, w1), Glass_eta(Ni, g, w1))
    IN  IF rf.total THEN One ELSE Glass_fresnel(Ni, g, w1, rf.wt)

Glass_sample_direction(u, Ni, g, w1) ==
    LET eta == Glass_eta(Ni, g, w1)
        rf == refraction(w1, Glass_n(g, w1), eta)
    IN  IF Less(u, Glass_Fr(Ni, g, w1))
        THEN MaterialDirectionSample(freflection(w1, ToFloat(g.n)), 0,
                                     Vec3(One))
        ELSE MaterialDirectionSample(rf.wt, 1, Vec3(Mul(eta, eta)))

\* The directions at which the square root of the discriminant is one of
\* Roots, or the reflection is total.
GlassDirections(Ni, g) ==
    {w \in UnitDirections :
        LET d == Discriminant(w, Glass_n(g, w), Glass_eta(Ni, g, w))
        IN  Less(d, Zero) \/ HasRoot(d)}

\* Values of rng.u() for a sample with Fresnel term Fr: the least value,
\* the greatest below Fr that is drawn, Fr itself and a value near 1.
GlassUs(Fr) ==
    {u \in {Zero, Mul(Fr, <<1, 2>>), Fr, <<99, 100>>} : Less(u, One)}

Glass_pdf_direction(g, w1, w2) == Zero

Glass_eval(g, w1, w2) == Vec3(Zero)

\* --- calls -----------------------------------------------------------------
Comps2 == {Comp_Diffuse, Comp_Glossy}
Comps3 == {Comp_Diffuse, Comp_Glossy, Comp_Alpha}
Speculars == {"mirror", "mask", "glass"}
Materials == {"mixture_without_alpha", "mixture"} \cup Speculars

NoGeom == [Kd |-> Vec3(Zero), Ks |-> Vec3(Zero), alpha |-> One, n |-> <<0, 1>>]
NoLobe == [c \in Comps3 |-> [p |-> Zero, f |-> Vec3(Zero)]]

\* A call: the material, the function, its arguments (the component, the
\* values of rng.u(), the directions, eval_delta) and what it returned (a
\* component, a Float, a Vec3, a flag or a direction sample).
NoCall ==
    [mat |-> "none", op |-> "none", comp |-> DontCare, u |-> <<Zero, Zero>>,
     wi |-> <<0, 0>>, wo |-> <<0, 0>>, eval_delta |-> FALSE,
     ret_comp |-> DontCare, ret |-> Zero, ret_v |-> Vec3(Zero),
     ret_b |-> FALSE, ret_s |-> NoDirectionSample]

IdleMaterial ==
    /\ material = "none"
    /\ Ni_ = One
    /\ geom = NoGeom
    /\ lobe = NoLobe
    /\ call = NoCall

\* A material, a surface point and the answers of the underlying materials
\* there; the specular materials have no underlying material, and only
\* Material_WavefrontObj_Mixture has an alpha texture and a mask material.
InitMaterial ==
    /\ material \in Materials
    /\ Ni_ \in IF material = "glass" THEN Nis ELSE {One}
    /\ geom \in [Kd : IF material \in Speculars THEN {Vec3(Zero)}
                       ELSE Reflectances,
                 Ks : IF material \in Speculars THEN {Vec3(Zero)}
                       ELSE Reflectances,
                 alpha : IF material = "mixture" THEN Alphas ELSE {One},
                 n : Normals]
    /\ lobe \in {l \in [Comps3 -> [p : LobePdfs, f : LobeEvals]] :
                   /\ material # "mixture" => l[Comp_Alpha] = NoLobe[Comp_Alpha]
                   /\ material \in Speculars => l = NoLobe}
    /\ call = NoCall

matRest ==
    <<renderVars, assetVars, walkVars, material, Ni_, geom, lobe, setupVars>>

\* What the sample_direction of an underlying diffuse or glossy material
\* returns: nothing, or a direction.
SubSamples ==
    {NoDirectionSample}
    \cup {[some |-> TRUE, wo |-> w] : w \in Directions}

Mixture_Without_Alpha_call_sample_comp_select ==
    /\ material = "mixture_without_alpha"
    /\ call.op = "none"
    /\ \E u \in Grid :
          call' = [NoCall EXCEPT
                     !.mat = "mixture_without_alpha",
                     !.op = "sample_comp_select",
                     !.u = <<u, Zero>>,
                     !.ret_comp =
                         Mixture_Without_Alpha_sample_comp_select(u, geom)]
    /\ UNCHANGED matRest

Mixture_Without_Alpha_call_pdf_comp_select ==
    /\ material = "mixture_without_alpha"
    /\ call.op = "none"
    /\ \E c \in Comps2 :
          call' = [NoCall EXCEPT
                     !.mat = "mixture_without_alpha",
                     !.op = "pdf_comp_select",
                     !.comp = c,
                     !.ret = Mixture_Without_Alpha_pdf_comp_select(geom, c)]
    /\ UNCHANGED matRest

Mixture_Without_Alpha_call_pdf_direction ==
    /\ material = "mixture_without_alpha"
    /\ call.op = "none"
    /\ \E w1 \in Directions, w2 \in Directions :
          call' = [NoCall EXCEPT
                     !.mat = "mixture_without_alpha",
                     !.op = "pdf_direction",
                     !.wi = w1,
                     !.wo = w2,
                     !.ret = Mixture_Without_Alpha_pdf_direction(geom, lobe)]
    /\ UNCHANGED matRest

Mixture_Without_Alpha_call_eval ==
    /\ material = "mixture_without_alpha"
    /\ call.op = "none"
    /\ \E w1 \in Directions, w2 \in Directions :
          call' = [NoCall EXCEPT
                     !.mat = "mixture_without_alpha",
                     !.op = "eval",
                     !.wi = w1,
                     !.wo = w2,
                     !.ret_v = Mixture_Without_Alpha_eval(geom, lobe)]
    /\ UNCHANGED matRest

Mixture_Without_Alpha_call_sample_direction ==
    /\ material = "mixture_without_alpha"
    /\ call.op = "none"
    /\ \E c \in {Mixture_Without_Alpha_sample_comp_select(u, geom) :
                    u \in Grid},
          w1 \in Directions, sub \in SubSamples :
              call' = [NoCall EXCEPT
                         !.mat = "mixture_without_alpha",
                         !.op = "sample_direction",
                         !.comp = c,
                         !.wi = w1,
                         !.ret_s = Mixture_Without_Alpha_sample_direction(
                                       geom, lobe, sub)]
    /\ UNCHANGED matRest

Mixture_call_sample_comp_select ==
    /\ material = "mixture"
    /\ call.op = "none"
    /\ \E u1 \in Grid, u2 \in Grid :
          call' = [NoCall EXCEPT
                     !.mat = "mixture",
                     !.op = "sample_comp_select",
                     !.u = <<u1, u2>>,
                     !.ret_comp = Mixture_sample_comp_select(u1, u2, geom)]
    /\ UNCHANGED matRest

Mixture_call_pdf_comp_select ==
    /\ material = "mixture"
    /\ call.op = "none"
    /\ \E c \in Comps3 :
          call' = [NoCall EXCEPT
                     !.mat = "mixture",
                     !.op = "pdf_comp_select",
                     !.comp = c,
                     !.ret = Mixture_pdf_comp_select(geom, c)]
    /\ UNCHANGED matRest

Mixture_call_pdf_direction ==
    /\ material = "mixture"
    /\ call.op = "none"
    /\ \E w1 \in Directions, w2 \in Directions :
          call' = [NoCall EXCEPT
                     !.mat = "mixture",
                     !.op = "pdf_direction",
                     !.wi = w1,
                     !.wo = w2,
                     !.ret = Mixture_pdf_direction(geom, lobe, w1, w2)]
    /\ UNCHANGED matRest

Mixture_call_eval ==
    /\ material = "mixture"
    /\ call.op = "none"
    /\ \E w1 \in Directions, w2 \in Directions :
          call' = [NoCall EXCEPT
                     !.mat = "mixture",
                     !.op = "eval",
                     !.wi = w1,
                     !.wo = w2,
                     !.ret_v = Mixture_eval(geom, lobe, w1, w2)]
    /\ UNCHANGED matRest

\* The mask material of the Alpha component samples as Material_Mask does.
Mixture_call_sample_direction ==
    /\ material = "mixture"
    /\ call.op = "none"
    /\ \E c \in {Mixture_sample_comp_select(u[1], u[2], geom) :
                    u \in Grid \X Grid},
          w1 \in Directions, s0 \in SubSamples :
          LET sub == IF c = Comp_Alpha THEN Mask_sample_direction(geom, w1)
                     ELSE s0
          IN  call' = [NoCall EXCEPT
                         !.mat = "mixture",
                         !.op = "sample_direction",
                         !.comp = c,
                         !.wi = w1,
                         !.ret_s = Mixture_sample_direction(
                                       geom, lobe, c, w1, sub)]
    /\ UNCHANGED matRest

\* Calls to Material_Mirror, Material_Mask and Material_Glass through the
\* Material interface. `eval_delta` is what the caller asks for;
\* pdf_direction and eval of the three materials take no such argument.
Specular_call_is_specular ==
    /\ material \in Speculars
    /\ call.op = "none"
    /\ call' = [NoCall EXCEPT
                  !.mat = material,
                  !.op = "is_specular",
                  !.ret_b = IF material = "mirror" THEN Mirror_is_specular
                            ELSE IF material = "mask" THEN Mask_is_specular
                            ELSE Glass_is_specular]
    /\ UNCHANGED matRest

Specular_call_sample_direction ==
    /\ material \in {"mirror", "mask"}
    /\ call.op = "none"
    /\ \E w1 \in Directions :
          call' = [NoCall EXCEPT
                     !.mat = material,
                     !.op = "sample_direction",
                     !.wi = w1,
                     !.ret_s = IF material = "mirror"
                               THEN Mirror_sample_direction(geom, w1)
                               ELSE Mask_sample_direction(geom, w1)]
    /\ UNCHANGED matRest

Glass_call_sample_direction ==
    /\ material = "glass"
    /\ call.op = "none"
    /\ \E w1 \in GlassDirections(Ni_, geom) :
       \E u \in GlassUs(Glass_Fr(Ni_, geom, w1)) :
          call' = [NoCall EXCEPT
                     !.mat = material,
                     !.op = "sample_direction",
                     !.wi = w1,
                     !.u = <<u, Zero>>,
                     !.ret_s = Glass_sample_direction(u, Ni_, geom, w1)]
    /\ UNCHANGED matRest

Specular_call_pdf_direction ==
    /\ material \in Speculars
    /\ call.op = "none"
    /\ \E w1 \in Directions, w2 \in Directions, d \in BOOLEAN :
          call' = [NoCall EXCEPT
                     !.mat = material,
                     !.op = "pdf_direction",
                     !.wi = w1,
                     !.wo = w2,
                     !.eval_delta = d,
                     !.ret = IF material = "mirror"
                             THEN Mirror_pdf_direction(geom, w1, w2)
                             ELSE IF material = "mask"
                             THEN Mask_pdf_direction(geom, w1, w2)
                             ELSE Glass_pdf_direction(geom, w1, w2)]
    /\ UNCHANGED matRest

Specular_call_eval ==
    /\ material \in Speculars
    /\ call.op = "none"
    /\ \E w1 \in Directions, w2 \in Directions, d \in BOOLEAN :
          call' = [NoCall EXCEPT
                     !.mat = material,
                     !.op = "eval",
                     !.wi = w1,
                     !.wo = w2,
                     !.eval_delta = d,
                     !.ret_v = IF material = "mirror"
                               THEN Mirror_eval(geom, w1, w2)
                               ELSE IF material = "mask"
                               THEN Mask_eval(geom, w1, w2)
                               ELSE Glass_eval(geom, w1, w2)]
    /\ UNCHANGED matRest

NextMaterial ==
    \/ Mixture_Without_Alpha_call_sample_comp_select
    \/ Mixture_Without_Alpha_call_pdf_comp_select
    \/ Mixture_Without_Alpha_call_pdf_direction
    \/ Mixture_Without_Alpha_call_eval
    \/ Mixture_Without_Alpha_call_sample_direction
    \/ Mixture_call_sample_comp_select
    \/ Mixture_call_pdf_comp_select
    \/ Mixture_call_pdf_direction
    \/ Mixture_call_eval
    \/ Mixture_call_sample_direction
    \/ Specular_call_is_specular
    \/ Specular_call_sample_direction
    \/ Specular_call_pdf_direction
    \/ Specular_call_eval
    \/ Glass_call_sample_direction

\* ------------------------------------------------------------------------
\* construct() of Model_WavefrontObj and of Renderer_PT
\* ------------------------------------------------------------------------
IOError == [kind |-> "IOError", element |-> "none"]

\* The instance comp::create<T>(impl, loc, params) returns.
Asset(impl, loc, params) == [impl |-> impl, loc |-> loc, params |-> params]

\* std::unordered_map<std::string, int> as a set of <<key, value>> pairs.
MapHas(m, k) == \E e \in m : e[1] = k
MapGet(m, k) == (CHOOSE e \in m : e[1] = k)[2]
MapSet(m, k, v) == {e \in m : e[1] # k} \cup {<<k, v>>}

\* fmt::format("mesh_{}", assets_.size()) and mesh_name + "_light"
MeshName(n) == <<"mesh_0", "mesh_1", "mesh_2", "mesh_3", "mesh_4",
                 "mesh_5">>[n + 1]
LightName(n) == <<"mesh_0_light", "mesh_1_light", "mesh_2_light",
                  "mesh_3_light", "mesh_4_light", "mesh_5_light">>[n + 1]

\* "texture_" + fs::path(m.mapKd).stem().string()
TextureId(mapKd) == IF mapKd = "wood.png" THEN "texture_wood" ELSE "texture_"

\* math::safe_sqrt on the values whose root is rational
safe_sqrt(a) ==
    IF ~Less(Zero, a) THEN Zero
    ELSE CHOOSE r \in {<<1, 2>>, One} : Mul(r, r) = a

\* The material records of the MTL file.
MaterialNames == {"m1", "m2"}
Illums == {2, 5, 7}
MapKds == {"", "wood.png"}
Shininess == {[Ns |-> Zero, an |-> Zero], [Ns |-> <<2, 1>>, an |-> <<5, 6>>]}
MTLMatParams ==
    {[name |-> n, illum |-> i, mapKd |-> t, Ns |-> sh.Ns, an |-> sh.an,
      Kd |-> Vec3(<<1, 2>>), Ks |-> Vec3(<<1, 4>>), Ke |-> Vec3(ke),
      Ni |-> <<3, 2>>] :
        n \in MaterialNames, i \in Illums, t \in MapKds, sh \in Shininess,
        ke \in {Zero}}

\* The callbacks objloader::load makes, in order: every material of the MTL
\* file, then every group of faces with the material it uses.
Callback(cb, m) == [cb |-> cb, m |-> m]
Emissive(m) == [m EXCEPT !.Ke = Vec3(One)]
LoadCallbacks ==
    {<<Callback("material", a)>> : a \in MTLMatParams}
    \cup {<<Callback("material", a), Callback("material", b)>> :
            a \in MTLMatParams, b \in {x \in MTLMatParams : x.illum = 2}}
    \cup {<<Callback("material", a), Callback("mesh", a)>> :
            a \in {x \in MTLMatParams : x.mapKd = ""}}
    \cup {<<Callback("material", a), Callback("mesh", Emissive(a))>> :
            a \in {x \in MTLMatParams : x.mapKd = ""}}
    \cup {<<Callback("mesh", a), Callback("material", a)>> :
            a \in {x \in MTLMatParams : x.mapKd = "" /\ x.illum = 2}}

\* The properties given to Model_WavefrontObj::construct.
ModelProps == [base_material : BOOLEAN, skip_specular_mat : BOOLEAN]

\* The properties given to Renderer_PT::construct; "" is a missing key.
ModeValues == {"", "naive", "nee", "mis", "bdpt"}
ImageSampleModeValues == {"", "pixel", "image", "tile"}
SchedulerNames == {"sample", "time"}
RendererProps ==
    [mode : ModeValues, image_sample_mode : ImageSampleModeValues,
     scheduler : SchedulerNames]

NoProps == [none |-> TRUE]
NullSched == [kind |-> "null", name |-> ""]
NoFields == [pt_mode_ |-> "none", image_sample_mode_ |-> "none",
            sched_ |-> NullSched]

IdleConstruct ==
    /\ component = "none"
    /\ props = NoProps
    /\ pending = <<>>
    /\ assets_ = <<>>
    /\ assets_map_ = {}
    /\ groups_ = <<>>
    /\ this = NoFields
    /\ cpc = "none"
    /\ cerr = NoError

\* A component that comp::create has allocated, before its construct().
\* The fields of a Renderer_PT that no constructor initialises hold
\* indeterminate values; sched_ is a null Ptr.
PTModes == {"Naive", "NEE", "MIS"}
ImageSampleModes == {"Pixel", "Image"}
InitConstruct ==
    /\ component \in {"model::wavefrontobj", "renderer::pt"}
    /\ props \in IF component = "renderer::pt" THEN RendererProps
                ELSE ModelProps
    /\ pending \in IF component = "renderer::pt" THEN {<<>>}
                   ELSE LoadCallbacks
    /\ assets_ = <<>>
    /\ assets_map_ = {}
    /\ groups_ = <<>>
    /\ this \in IF component = "renderer::pt"
                 THEN [pt_mode_ : PTModes \cup {"indeterminate"},
                       image_sample_mode_ :
                           ImageSampleModes \cup {"indeterminate"},
                       sched_ : {NullSched}]
                 ELSE {NoFields}
    /\ cpc = "start"
    /\ cerr = NoError

\* assets_map_[name] = int(assets_.size()); assets_.push_back(asset)
Register(st, name, asset) ==
    [st EXCEPT !.assets_map_ = MapSet(st.assets_map_, name, Len(st.assets_)),
               !.assets_ = Append(st.assets_, asset)]

ModelState == [assets_ |-> assets_, assets_map_ |-> assets_map_,
               groups_ |-> groups_, ok |-> TRUE]

Failed(st) == [st EXCEPT !.ok = FALSE]

\* The asset a successful comp::create<Material> of the callback makes.
ProcessMaterial_mat_mut(m, mapKd_loc) ==
    LET skip_specular_mat == props.skip_specular_mat
        r == Div(<<2, 1>>, Add(<<2, 1>>, m.Ns))
        as == safe_sqrt(Sub(One, Mul(m.an, <<9, 10>>)))
    IN  IF m.illum = 5 \/ m.illum = 7
        THEN IF skip_specular_mat
             THEN Asset("material::diffuse", m.name, [Kd |-> Vec3(Zero)])
             ELSE Asset("material::mirror", m.name, [none |-> TRUE])
        ELSE Asset(IF skip_specular_mat
                   THEN "material::wavefrontobj_marginal_without_alpha"
                   ELSE "material::wavefrontobj_mixture",
                   m.name,
                   [Kd |-> m.Kd, mapKd |-> mapKd_loc, Ks |-> m.Ks,
                    ax |-> glm_max(<<1, 1000>>, Div(r, as)),
                    ay |-> glm_max(<<1, 1000>>, Mul(r, as))])

ProcessMaterial_mat(m, mapKd_loc) ==
    LET skip_specular_mat == props.skip_specular_mat
        r == Div(<<2, 1>>, Add(<<2, 1>>, m.Ns))
        as == safe_sqrt(Sub(One, Mul(m.an, <<9, 10>>)))
    IN  IF m.illum = 5 \/ m.illum = 7
        THEN IF skip_specular_mat
             THEN Asset("material::diffuse", m.name, [Kd |-> Vec3(Zero)])
             ELSE IF m.illum = 7
             THEN Asset("material::glass", m.name, [Ni |-> m.Ni])
             ELSE Asset("material::mirror", m.name, [none |-> TRUE])
        ELSE Asset(IF skip_specular_mat
                   THEN "material::wavefrontobj_marginal_without_alpha"
                   ELSE "material::wavefrontobj_mixture",
                   m.name,
                   [Kd |-> m.Kd, mapKd |-> mapKd_loc, Ks |-> m.Ks,
                    ax |-> glm_max(<<1, 1000>>, Div(r, as)),
                    ay |-> glm_max(<<1, 1000>>, Mul(r, as))])

\* The "Process material" callback; created_texture and created_mat tell
\* whether the comp::create calls it makes return an instance.
ProcessMaterial(st, m, created_texture, created_mat) ==
    IF props.base_material
    THEN IF ~created_mat THEN Failed(st)
         ELSE Register(st, m.name,
                       Asset("material::proxy", m.name,
                             [ref |-> "base_material"]))
    ELSE LET id == TextureId(m.mapKd)
             load == m.mapKd # "" /\ ~MapHas(st.assets_map_, id)
             st1 == IF load
                    THEN Register(st, id, Asset("texture::bitmap", id,
                                                [path |-> m.mapKd]))
                    ELSE st
             mapKd_loc == IF m.mapKd # "" THEN id ELSE ""
         IN  IF load /\ ~created_texture THEN Failed(st)
             ELSE IF ~created_mat THEN Failed(st1)
             ELSE Register(st1, m.name, ProcessMaterial_mat(m, mapKd_loc))

\* The "Process mesh" callback. assets_map_[m.name] of the group is
\* operator[]: a name that is not registered is inserted with index 0.
ProcessMesh(st, m, created_mesh, created_light) ==
    LET mesh_name == MeshName(Len(st.assets_))
        st1 == Register(st, mesh_name,
                        Asset("mesh::wavefrontobj", mesh_name,
                              [none |-> TRUE]))
        emits == Less(Zero, compMax(m.Ke))
        light_name == LightName(Len(st.assets_))
        st2 == IF emits
               THEN Register(st1, light_name,
                             Asset("light::area", light_name,
                                   [Ke |-> m.Ke, mesh |-> mesh_name]))
               ELSE st1
        light_index == IF emits THEN Len(st1.assets_) ELSE -1
        st3 == IF MapHas(st2.assets_map_, m.name) THEN st2
               ELSE [st2 EXCEPT !.assets_map_ = @ \cup {<<m.name, 0>>}]
    IN  IF ~created_mesh THEN Failed(st)
        ELSE IF emits /\ ~created_light THEN Failed(st1)
        ELSE [st3 EXCEPT !.groups_ =
                 Append(@, [mesh |-> MapGet(st3.assets_map_, mesh_name),
                            material |-> MapGet(st3.assets_map_, m.name),
                            light |-> light_index])]

constructRest == <<renderVars, assetVars, walkVars, matVars, component, props,
                   this, vcall>>

\* objloader::load reaches a callback; a callback that returns false ends
\* the load with result false, and construct throws Error::IOError.
Callback_return(st) ==
    /\ assets_' = st.assets_
    /\ assets_map_' = st.assets_map_
    /\ groups_' = st.groups_
    /\ IF st.ok
       THEN /\ pending' = Tail(pending)
            /\ cpc' = "load"
            /\ cerr' = NoError
       ELSE /\ pending' = pending
            /\ cpc' = "thrown"
            /\ cerr' = IOError
    /\ UNCHANGED constructRest

WavefrontObj_process_material ==
    /\ component = "model::wavefrontobj"
    /\ cpc \in {"start", "load"}
    /\ pending # <<>>
    /\ Head(pending).cb = "material"
    /\ \E created_texture \in BOOLEAN, created_mat \in BOOLEAN :
          Callback_return(ProcessMaterial(ModelState, Head(pending).m,
                                          created_texture, created_mat))

WavefrontObj_process_mesh ==
    /\ component = "model::wavefrontobj"
    /\ cpc \in {"start", "load"}
    /\ pending # <<>>
    /\ Head(pending).cb = "mesh"
    /\ \E created_mesh \in BOOLEAN, created_light \in BOOLEAN :
          Callback_return(ProcessMesh(ModelState, Head(pending).m,
                                      created_mesh, created_light))

\* objloader::load returns true: construct returns.
WavefrontObj_construct_return ==
    /\ component = "model::wavefrontobj"
    /\ cpc \in {"start", "load"}
    /\ pending = <<>>
    /\ cpc' = "returned"
    /\ UNCHANGED <<constructRest, pending, assets_, assets_map_, groups_,
                   cerr>>

\* json::value<std::string>(prop, name, def)
value_or(v, def) == IF v = "" THEN def ELSE v

\* The sampling mode construct leaves in pt_mode_.
Renderer_PT_mode(b, str) ==
    IF str = "naive" THEN "Naive"
    ELSE IF str = "nee" THEN "NEE"
    ELSE IF str = "mis" THEN "MIS"
    ELSE b.pt_mode_

\* Renderer_PT::construct; created tells whether comp::create of the
\* scheduler returns an instance.
Renderer_PT_construct ==
    /\ component = "renderer::pt"
    /\ cpc = "start"
    /\ \E created \in BOOLEAN :
          LET sched_name == props.scheduler
              str == value_or(props.image_sample_mode, "pixel")
              sched(kind) == IF created
                             THEN [kind |-> kind, name |-> sched_name]
                             ELSE NullSched
          IN  this' =
                [pt_mode_ |->
                    Renderer_PT_mode(this, value_or(props.mode, "mis")),
                 image_sample_mode_ |->
                    IF str = "pixel" THEN "Pixel"
                    ELSE IF str = "image" THEN "Image"
                    ELSE this.image_sample_mode_,
                 sched_ |->
                    IF str = "pixel" THEN sched("spp")
                    ELSE IF str = "image" THEN sched("spi")
                    ELSE this.sched_]
    /\ cpc' = "returned"
    /\ UNCHANGED <<renderVars, assetVars, walkVars, matVars, component, props,
                   pending, assets_, assets_map_, groups_, cerr, vcall>>

NextConstruct ==
    \/ WavefrontObj_process_material
    \/ WavefrontObj_process_mesh
    \/ WavefrontObj_construct_return
    \/ Renderer_PT_construct

\* ------------------------------------------------------------------------
\* Scene::visible
\* ------------------------------------------------------------------------
\* Eps and Inf of the math library: a small and a large positive Float.
Eps == <<1, 100>>
Inf == <<10000, 1>>

\* Scene interactions on one line through the scene: a point at position p,
\* or a point at infinity seen in direction geom.wo (-1 or 1).
SurfacePoint(p) == [infinite |-> FALSE, p |-> p, wo |-> 0]
InfinitePoint(wo) == [infinite |-> TRUE, p |-> Zero, wo |-> wo]
Positions == {Zero, One, <<2, 1>>}
Interactions ==
    {SurfacePoint(p) : p \in Positions} \cup {InfinitePoint(-1),
                                              InfinitePoint(1)}

\* Where the surfaces of the scene cross the line.
OccluderPositions ==
    {<<-1, 1>>, <<3, 200>>, <<1, 2>>, <<3, 2>>, <<397, 200>>, <<3, 1>>}

Scenes == [occluders : SUBSET OccluderPositions, env_light : BOOLEAN]

\* glm::normalize(b - a) on the line; 0 stands for the NaN of a = b.
normalize(a, b) == IF Less(a, b) THEN 1 ELSE IF Less(b, a) THEN -1 ELSE 0

\* glm::distance(a, b)
distance(a, b) == IF Less(a, b) THEN Sub(b, a) ELSE Sub(a, b)

\* Ray parameter of position x on the ray from o in direction d.
RayParam(o, d, x) == IF d = 1 THEN Sub(x, o) ELSE Sub(o, x)

LessEq(a, b) == ~Less(b, a)

\* Scene::intersect has a value: a surface is hit within [tmin, tmax], or
\* nothing is hit, the scene has an environment light and tmax = Inf.
intersect(scene, o, d, tmin, tmax) ==
    \/ /\ d # 0
       /\ \E x \in scene.occluders :
             /\ LessEq(tmin, RayParam(o, d, x))
             /\ LessEq(RayParam(o, d, x), tmax)
    \/ scene.env_light /\ tmax = Inf

\* The lambda visible_ of Scene::visible: the shadow ray it casts and the
\* value it returns. asserted is the value of the assert expression.
visible__mut(scene, a, b) ==
    LET wo == IF b.infinite THEN -b.wo ELSE normalize(a.p, b.p)
        tmax == IF b.infinite THEN Sub(Inf, One)
                ELSE Mul(distance(a.p, b.p), Sub(One, Eps))
    IN  [asserted |-> ~a.infinite, origin |-> a, wo |-> -wo, tmin |-> Eps,
         tmax |-> tmax,
         ret |-> ~intersect(scene, a.p, -wo, Eps, tmax)]

visible_(scene, a, b) ==
    LET wo == IF b.infinite THEN -b.wo ELSE normalize(a.p, b.p)
        tmax == IF b.infinite THEN Sub(Inf, One)
                ELSE Mul(distance(a.p, b.p), Sub(One, Eps))
    IN  [asserted |-> ~a.infinite, origin |-> a, wo |-> wo, tmin |-> Eps,
         tmax |-> tmax,
         ret |-> ~intersect(scene, a.p, wo, Eps, tmax)]

\* Scene::visible(sp1, sp2)
visible(scene, sp1, sp2) ==
    IF sp1.infinite THEN visible_(scene, sp2, sp1)
    ELSE visible_(scene, sp1, sp2)

NoPoint == [infinite |-> FALSE, p |-> Zero, wo |-> 0]
NoVisible ==
    [op |-> "none", scene |-> [occluders |-> {}, env_light |-> FALSE],
     sp1 |-> NoPoint, sp2 |-> NoPoint, asserted |-> TRUE, origin |-> NoPoint,
     wo |-> 0, tmin |-> Zero, tmax |-> Zero, ret |-> FALSE]

IdleVisible == vcall = NoVisible

\* One call visible(sp1, sp2) on one scene. When the assert expression is
\* false the ray starts at the position of a point at infinity, which is
\* no position: a build without assertions returns either answer.
Scene_call_visible ==
    /\ vcall.op = "none"
    /\ \E scene \in Scenes, sp1 \in Interactions, sp2 \in Interactions :
          LET v == visible(scene, sp1, sp2)
          IN  \E ret \in IF v.asserted THEN {v.ret} ELSE BOOLEAN :
                 vcall' = [op |-> "visible", scene |-> scene, sp1 |-> sp1,
                           sp2 |-> sp2, asserted |-> v.asserted,
                           origin |-> v.origin, wo |-> v.wo,
                           tmin |-> v.tmin, tmax |-> v.tmax, ret |-> ret]
    /\ UNCHANGED <<renderVars, assetVars, walkVars, matVars, component, props,
                   pending, assets_, assets_map_, groups_, this, cpc, cerr>>

NextVisible == Scene_call_visible

IdleSetup == IdleConstruct /\ IdleVisible

\* ------------------------------------------------------------------------
\* Specifications
\* ------------------------------------------------------------------------
Init == InitRender /\ InitAsset /\ IdleWalk /\ IdleMaterial /\ IdleSetup

Next == NextRender

\* render() of the three renderers on every scene.
Spec == Init /\ [][Next]_vars

\* The asset group under load_asset and queries.
InitAssetGroup == IdleRender /\ InitAsset /\ IdleWalk /\ IdleMaterial /\ IdleSetup

SpecAsset == InitAssetGroup /\ [][NextAsset]_vars

\* render() called repeatedly on a renderable scene, with one or two
\* worker threads.
InitPool ==
    /\ renderer \in {"pt", "volpt", "ptdirect"}
    /\ num_nodes = 2
    /\ camera_node = 1
    /\ num_lights = 1
    /\ accel = TRUE
    /\ size \in {[w |-> 1, h |-> 1], [w |-> 2, h |-> 1]}
    /\ image_sample_mode_ \in
          IF renderer = "pt" THEN {"Pixel", "Image"}
          ELSE IF renderer = "volpt" THEN {"Image"} ELSE {"Pixel"}
    /\ sched_ = [kind |-> IF renderer = "ptdirect" THEN "foreach"
                          ELSE IF image_sample_mode_ = "Pixel" THEN "spp"
                          ELSE "spi",
                 n |-> 2]
    /\ rpc = "start"
    /\ err = NoError
    /\ required = FALSE
    /\ clears = 0
    /\ issued = 0
    /\ window = FullWindow
    /\ taskCount = [p \in Pixels(size) |-> 0]
    /\ outside = 0
    /\ written = FALSE
    /\ processed = 0
    /\ rescales = <<>>
    /\ workers \in Workers
    /\ seed_ \in IF renderer = "ptdirect" THEN {[some |-> TRUE, v |-> rngSeed_]}
                 ELSE SeedOptions
    /\ NoThreads

InitProcess == InitPool /\ InitAsset /\ IdleWalk /\ IdleMaterial /\ IdleSetup

SpecThreads == InitProcess /\ [][NextThreads]_vars

\* The random walk of one task of Renderer_VolPT.
InitVolTask ==
    RunningVolRender /\ InitAsset /\ InitVolWalk /\ IdleMaterial /\ IdleSetup

SpecVolPT == InitVolTask /\ [][NextVolPT]_vars

\* The random walk of one task of Renderer_PT.
InitTask == RunningRender /\ InitAsset /\ InitWalk /\ IdleMaterial /\ IdleSetup

SpecPT == InitTask /\ [][NextWalk]_vars

\* The random walk of one task of either renderer.
InitWalks == InitTask \/ InitVolTask

NextWalks == NextWalk \/ NextVolPT

SpecWalks == InitWalks /\ [][NextWalks]_vars

\* Calls to the materials at every surface point.
InitMaterialGroup ==
    IdleRender /\ InitAsset /\ IdleWalk /\ InitMaterial /\ IdleSetup

SpecMaterial == InitMaterialGroup /\ [][NextMaterial]_vars

\* construct() of a model and of a renderer on every configuration.
InitConstructGroup ==
    /\ IdleRender /\ InitAsset /\ IdleWalk /\ IdleMaterial
    /\ InitConstruct /\ IdleVisible

SpecConstruct == InitConstructGroup /\ [][NextConstruct]_vars

\* Scene::visible on every scene and pair of interactions.
InitVisibleGroup ==
    /\ IdleRender /\ InitAsset /\ IdleWalk /\ IdleMaterial
    /\ IdleConstruct /\ IdleVisible

SpecVisible == InitVisibleGroup /\ [][NextVisible]_vars

\* ------------------------------------------------------------------------
\* Properties of render()
\* ------------------------------------------------------------------------
\* C1: every renderer's render() calls require_renderable() before the film
\* is cleared, before any task is dispatched and before any pixel is written.
C1_RequireBeforeAnything ==
    (clears > 0 \/ issued > 0 \/ written) => required

\* C1, for the two renderers that do make the call: renderer::pt and
\* renderer::volpt clear, dispatch and write only after a call that returned.
C1_RequireFirst_PT_VolPT ==
    renderer \in {"pt", "volpt"} =>
        ((clears > 0 \/ issued > 0 \/ written) => (required /\ err = NoError))

SomethingMissing ==
    num_nodes <= 1 \/ camera_node = -1 \/ num_lights = 0 \/ ~accel

FirstMissing ==
    IF num_nodes <= 1 THEN "primitive"
    ELSE IF camera_node = -1 THEN "camera"
    ELSE IF num_lights = 0 THEN "light"
    ELSE "accel"

\* C2: require_renderable() fails with Unsupported iff a primitive, the
\* camera, a light or the accel is missing; the element reported is the first
\* missing one in that order; otherwise the call returns normally; the call
\* never changes the scene.
C2_RequireRenderable ==
    /\ [](required =>
            /\ (err.kind = "Unsupported") = SomethingMissing
            /\ SomethingMissing => (err.element = FirstMissing /\ rpc = "thrown")
            /\ ~SomethingMissing => (err = NoError /\ rpc # "thrown"))
    /\ [][required' # required => UNCHANGED sceneVars]_vars

\* C2 witness: two elements are missing and the first in order is reported.
C2_Witness ==
    /\ required
    /\ num_nodes > 1 /\ camera_node = -1 /\ ~accel
    /\ err = Unsupported("camera")

\* C8: after the run the film is rescaled exactly once: by 1 / (samples each
\* pixel received) in Pixel mode, by W*H / (samples run) in Image mode and in
\* VolPT; the spp scheduler runs W*H*spp tasks.
C8_RescaleOnce ==
    renderer \in {"pt", "volpt"} =>
        /\ Len(rescales) = IF rpc = "done" THEN 1 ELSE 0
        /\ rpc = "done" =>
              IF image_sample_mode_ = "Pixel"
              THEN /\ issued = size.w * size.h * sched_.n
                   /\ \A p \in Pixels(size) : rescales[1] = <<1, taskCount[p]>>
              ELSE rescales[1] = <<size.w * size.h, issued>>

\* C8 witness: a Pixel-mode render of several pixels and samples is done.
C8_Witness ==
    /\ renderer = "pt" /\ image_sample_mode_ = "Pixel" /\ rpc = "done"
    /\ size.w * size.h > 1 /\ sched_.n > 1
    /\ Len(rescales) = 1

\* C9: in Pixel mode task i gets the window of pixel (i mod W, (i / W) mod H),
\* which lies inside the unit square, and every pixel receives the same
\* number of tasks.
C9_PixelWindow ==
    (image_sample_mode_ = "Pixel" /\ renderer \in {"pt", "ptdirect"}) =>
        /\ outside = 0
        /\ issued > 0 =>
              /\ window.x = (issued - 1) % size.w
              /\ window.y = ((issued - 1) \div size.w) % size.h
              /\ window.w = size.w /\ window.h = size.h
              /\ InUnitSquare(window)
        /\ rpc = "done" =>
              \A p \in Pixels(size) : taskCount[p] = sched_.n

\* C9 witness: the last task of a second pass over a non-square film.
C9_Witness ==
    /\ renderer = "pt" /\ image_sample_mode_ = "Pixel"
    /\ size.w # size.h /\ sched_.n > 1
    /\ issued = size.w * size.h * sched_.n
    /\ window.x = size.w - 1 /\ window.y = size.h - 1

\* ------------------------------------------------------------------------
\* Properties of the asset group
\* ------------------------------------------------------------------------
\* C3: after successful load_asset calls, get("$." + name) is the live
\* instance built by the latest load_asset for that name, with that call's
\* type and props (v keeps its default when props has no v); a load under
\* an existing name replaces the asset and still succeeds.
C3_LatestLoadWins ==
    \A n \in Names :
        lastLoad[n].some =>
            LET a == get(assets, n)
            IN  /\ load_result
                /\ Valid(insts, a)
                /\ insts[a].loc = n
                /\ \A j \in DOMAIN insts : insts[j].loc = n => j <= a
                /\ \A j \in DOMAIN insts :
                      (insts[j].loc = n /\ j # a) => ~insts[j].alive
                /\ insts[a].type = lastLoad[n].type
                /\ insts[a].type = "testasset::simple" =>
                      insts[a].v = IF lastLoad[n].prop.hasV
                                   THEN lastLoad[n].prop.v
                                   ELSE DefaultV

\* C3 witness: asset1 was replaced by an asset with another v.
C3_Witness ==
    /\ Valid(insts, assets["asset1"])
    /\ lastLoad["asset1"].prop.hasV
    /\ \E j \in DOMAIN insts :
          /\ insts[j].loc = "asset1" /\ ~insts[j].alive
          /\ insts[j].v # insts[assets["asset1"]].v

\* C4: a dependent asset that resolved "$.asset1" when it was constructed
\* refers to the current asset1 after every replacement of asset1, never to
\* a destroyed instance, and a query through it returns asset1.f() + 1.
C4_DependentSeesReplacement ==
    /\ \A j \in DOMAIN insts :
          (insts[j].alive /\ insts[j].type = "testasset::dependent"
              /\ insts[j].other # Null) =>
             /\ Valid(insts, insts[j].other)
             /\ insts[j].other = get(assets, "asset1")
    /\ (query.name # "none" /\ insts[query.inst].type = "testasset::dependent"
           /\ insts[query.inst].other # Null) =>
          /\ ~query.ub
          /\ query.f = insts[get(assets, "asset1")].v + 1

\* C4 witness: asset2 is queried after asset1 was replaced behind it.
C4_Witness ==
    /\ query.name = "asset2"
    /\ insts[query.inst].type = "testasset::dependent"
    /\ insts[query.inst].other # Null
    /\ query.inst < assets["asset1"]
    /\ query.f = insts[assets["asset1"]].v + 1

\* ------------------------------------------------------------------------
\* Properties of the random walk of Renderer_PT
\* ------------------------------------------------------------------------
\* The NEE block of the current iteration has run.
NeeDone == wpc \in {"intersect", "direct", "rr"}

\* C5: the NEE edge is sampled exactly when mode != Naive, the sampled
\* vertex is not specular and (Image mode or length > 0). No NEE splat is
\* made at length 0 in Pixel mode; at length 0 in Image mode the splat uses
\* the raster position of -sL.wo and is skipped when that misses the film;
\* at length > 0 it uses the cached raster position.
C5_NeeEdge ==
    NeeDone =>
        /\ nee = (/\ pt_mode_ # "Naive"
                  /\ ~s.specular
                  /\ (image_sample_mode_ = "Image" \/ length > 0))
        /\ sL.called = nee
        /\ (image_sample_mode_ = "Pixel" /\ length = 0) => ~neeSplat.some
        /\ neeSplat.some =
              (/\ nee /\ sL.some /\ sL.visible
               /\ (length = 0 => raster_position(-sL.wo).some))
        /\ neeSplat.some =>
              neeSplat.rp = IF length = 0 THEN raster_position(-sL.wo).rp
                            ELSE raster_pos

\* C5 witness: an NEE splat on the primary vertex in Image mode, at a raster
\* position other than the one of the primary ray.
C5_Witness ==
    /\ NeeDone /\ image_sample_mode_ = "Image" /\ length = 0
    /\ neeSplat.some /\ neeSplat.rp # raster_pos /\ ~derefEmpty

\* C6: a light hit by the continuation ray is splatted exactly when
\* is_light(hit) and (mode != NEE or NEE was not enabled at the vertex); in
\* NEE mode an edge is never accounted by both strategies, and in Naive mode
\* never by NEE.
C6_DirectHit ==
    /\ wpc = "rr" =>
          /\ directSplat.some =
                (hit.some /\ hit.is_light /\ (pt_mode_ # "NEE" \/ ~nee))
          /\ directSplat.some => directSplat.rp = raster_pos
    /\ directSplat.some => (hit.some /\ hit.is_light)
    /\ pt_mode_ = "NEE" => ~(sL.called /\ directSplat.some)
    /\ pt_mode_ = "Naive" => (~sL.called /\ ~neeSplat.some)

\* C6 witness: in NEE mode a light hit from a specular vertex is splatted.
C6_Witness ==
    /\ wpc = "rr" /\ pt_mode_ = "NEE" /\ s.specular /\ length > 0
    /\ directSplat.some

\* w is the fraction num / den, and 0 when den = 0.
IsRatio(w, num, den) ==
    IF den = 0 THEN w = Zero
    ELSE w[2] > 0 /\ w[1] * den = num * w[2]

\* C7: the MIS weight of an NEE splat is 1 in NEE mode or when the light is
\* specular or degenerated, and otherwise
\* pdf_direct / (pdf_direct + pdf_direction); the weight of a direct hit is 1
\* in Naive mode or when NEE was not enabled, and otherwise
\* pdf_direction / (pdf_direction + pdf_direct); 0 / 0 counts as 0.
C7_MisWeights ==
    /\ neeSplat.some =>
          IF pt_mode_ = "NEE" \/ sL.specular \/ sL.degenerated
          THEN neeSplat.misw = One
          ELSE /\ neeSplat.queried
               /\ IsRatio(neeSplat.misw, neeSplat.pdf_direct,
                          neeSplat.pdf_direct + neeSplat.pdf_direction)
    /\ directSplat.some =>
          IF pt_mode_ = "Naive" \/ ~nee
          THEN directSplat.misw = One
          ELSE /\ directSplat.queried
               /\ IsRatio(directSplat.misw, directSplat.pdf_direction,
                          directSplat.pdf_direction + directSplat.pdf_direct)

\* C7 witness: both strategies weighted by the balance heuristic at one
\* vertex in MIS mode, next to an NEE splat of weight 1/2.
C7_Witness ==
    /\ pt_mode_ = "MIS"
    /\ neeSplat.some /\ neeSplat.queried /\ neeSplat.misw = <<1, 2>>
    /\ directSplat.some /\ directSplat.queried /\ directSplat.misw = Zero

\* C10: an empty result of a sampling or query function is never
\* dereferenced and never crashes the task.
C10_EmptyNeverDereferenced == ~derefEmpty /\ wpc # "crashed"

\* C11: no splat with a non-finite component is handed to the film, and a
\* walk whose throughput has become non-finite makes no further splat and
\* starts no further iteration.
C11_NonFiniteDiscipline ==
    /\ neeSplat.some => VFinite(neeSplat.C)
    /\ directSplat.some => VFinite(directSplat.C)
    /\ ~VFinite(throughput) => wpc \notin {"nee", "intersect"}

\* C16: Russian roulette is applied exactly at the iterations with
\* length > 3; q is the larger of 0.2 and 1 - max_component(throughput); the
\* walk ends exactly when u < q and then keeps its throughput; a surviving
\* walk has its throughput divided by 1 - q, which is strictly positive; a
\* walk with max_component(throughput) <= 0 always ends.
C16_RussianRoulette ==
    /\ rr.applied => length > 3
    /\ (wpc = "update" /\ length > 3) => rr.applied
    /\ rr.applied =>
          LET m == Sub(One, compMax(rr.before))
          IN  /\ rr.q = <<1, 5>> \/ rr.q = m
              /\ ~Less(rr.q, <<1, 5>>) /\ ~Less(rr.q, m)
              /\ rr.end = Less(rr.u, rr.q)
              /\ rr.end => (wpc = "done" /\ throughput = rr.before)
              /\ ~rr.end =>
                    /\ wpc = "update"
                    /\ Less(Zero, Sub(One, rr.q))
                    /\ throughput = VDiv(rr.before, Sub(One, rr.q))
              /\ (IsFinite(compMax(rr.before))
                     /\ ~Less(Zero, compMax(rr.before))) => rr.end

\* C16 witness: a walk survives the roulette with q = 1 - max_component
\* above 0.2 and its throughput is divided by 1 - q.
C16_Witness ==
    /\ wpc = "update" /\ rr.applied /\ ~rr.end
    /\ Less(<<1, 5>>, rr.q) /\ rr.q = Sub(One, compMax(rr.before))
    /\ throughput = <<One, Zero, Zero>>

\* C16, the case of a black throughput: q = 1 and the walk ends on any draw.
C16_WitnessBlack ==
    /\ wpc = "done" /\ rr.applied /\ rr.end
    /\ rr.before = Vec3(Zero) /\ rr.q = One /\ rr.u = <<99, 100>>

\* ------------------------------------------------------------------------
\* Properties of repeated and concurrent render() calls
\* ------------------------------------------------------------------------
\* C12: with one worker and a seed s, every render() run starts the
\* worker's random stream anew from the seed s + threadid, whatever ran
\* before in the process; so two runs with the same seed consume the same
\* random numbers.
C12_SeededPerRun ==
    (workers = 1 /\ renderer \in {"pt", "volpt"}) =>
        \A t \in ThreadIds :
            (runStart[t].some /\ seed_.some) =>
                (runStart[t].seed = seed_.v + t /\ runStart[t].fresh)

\* The film is cleared by the calling thread before the first task starts,
\* rescaled by it after the last task has finished, and written by workers
\* through splat only.
FilmDiscipline ==
    \A o \in filmOps :
        /\ o.worker => o.op = "splat"
        /\ o.op \in {"clear", "rescale"} => (~o.worker /\ o.inflight = 0)
        /\ o.op = "clear" => ~o.started
        /\ o.op = "rescale" => o.finished

\* C13: while tasks run concurrently the workers mutate the film through
\* splat only; clear and rescale are made by a single thread before the
\* first task starts and after the last task finishes.
C13_FilmOnlySplat == FilmDiscipline

\* C13, for the two renderers that keep the discipline.
C13_FilmOnlySplat_PT_VolPT ==
    renderer \in {"pt", "volpt"} => FilmDiscipline

\* Two tasks of renderer::pt in flight, one of them splatting.
C13_Concurrent_PT ==
    /\ renderer = "pt"
    /\ \E o \in filmOps : o.op = "splat" /\ o.inflight = 2

\* ------------------------------------------------------------------------
\* Properties of the random walk of Renderer_VolPT
\* ------------------------------------------------------------------------
\* C14: the emission of a light reached by the sampled (direction, distance)
\* edge is splatted exactly when the component of the vertex the edge starts
\* from is specular, that is when NEE was not sampled at that vertex; when
\* NEE is samplable there, the light hit by the edge contributes nothing.
C14_EmissionOnlyWithoutNee ==
    /\ wpc \in {"vol_direction", "vol_distance", "vol_rr", "vol_update"} =>
          /\ samplable_by_nee = ~is_specular_component(comp)
          /\ sL.called = samplable_by_nee
    /\ wpc \in {"vol_rr", "vol_update"} =>
          directSplat.some =
             (is_specular_component(comp) /\ sd.some /\ sd.is_light)
    /\ directSplat.some =>
          (~sL.called /\ is_specular_component(comp) /\ sd.is_light
              /\ directSplat.rp = raster_pos)

\* C14 witness: beyond the first vertex, a light is hit from a vertex with a
\* specular component and its emission is splatted.
C14_Witness ==
    /\ wpc = "vol_rr" /\ num_verts > 1
    /\ is_specular_component(comp) /\ ~sL.called
    /\ sd.is_light /\ directSplat.some

\* C14, the other case: NEE made a splat at the vertex and the light hit by
\* the edge from it is not splatted.
C14_WitnessNee ==
    /\ wpc = "vol_rr" /\ neeSplat.some /\ sd.is_light /\ ~directSplat.some

\* C15 as stated, length being the number of iterations of the walk made
\* before the current one (the loop counter of Renderer_PT): Russian
\* roulette is applied only at length > 5.
C15_RouletteAfterLength5 ==
    rr.applied => (num_verts - 1) > 5

\* C15, amended: Russian roulette is applied exactly at the iterations with
\* num_verts > 5, num_verts counting the iterations from 1; q is the larger
\* of rr_prob and 1 - max_component(throughput), rr_prob being 0.2 unless
\* given; the walk ends exactly when u < q; a surviving walk has its
\* throughput divided by 1 - q.
C15_RussianRoulette ==
    /\ rr_prob_ = IF prop_rr_prob.some THEN prop_rr_prob.v ELSE <<1, 5>>
    /\ rr.applied => num_verts > 5
    /\ (wpc = "vol_update" /\ num_verts > 5) => rr.applied
    /\ rr.applied =>
          LET m == Sub(One, compMax(rr.before))
          IN  /\ rr.q = rr_prob_ \/ rr.q = m
              /\ ~Less(rr.q, rr_prob_) /\ ~Less(rr.q, m)
              /\ rr.end = Less(rr.u, rr.q)
              /\ rr.end => (wpc = "done" /\ throughput = rr.before)
              /\ ~rr.end =>
                    /\ wpc = "vol_update"
                    /\ throughput = VDiv(rr.before, Sub(One, rr.q))

\* C15 witness: at num_verts = 6 a walk with a configured rr_prob survives
\* the roulette and its throughput is divided by 1 - q.
C15_Witness ==
    /\ wpc = "vol_update" /\ num_verts = 6
    /\ rr.applied /\ ~rr.end
    /\ prop_rr_prob.some /\ rr.q = rr_prob_
    /\ throughput # rr.before

\* ------------------------------------------------------------------------
\* Properties of the materials
\* ------------------------------------------------------------------------
\* wD = max(Kd) / (max(Kd) + max(Ks)), and 1 when both maxima are 0.
StatedWD ==
    IF compMax(geom.Kd) = Zero /\ compMax(geom.Ks) = Zero THEN One
    ELSE Div(compMax(geom.Kd), Add(compMax(geom.Kd), compMax(geom.Ks)))

\* The probability that sample_comp_select returns c: the share of the
\* values of rng.u(), resp. of the pairs of values, that make it return c.
ProbWithoutAlpha(c) ==
    Norm(Cardinality({u \in Grid :
             Mixture_Without_Alpha_sample_comp_select(u, geom) = c}),
         Cardinality(Grid))

ProbMixture(c) ==
    Norm(Cardinality({u \in Grid \X Grid :
             Mixture_sample_comp_select(u[1], u[2], geom) = c}),
         Cardinality(Grid \X Grid))

InUnitInterval(a) == IsFinite(a) /\ ~Less(a, Zero) /\ ~Less(One, a)

\* C17: in both mixture materials sample_comp_select returns each lobe with
\* the stated probability (Diffuse wD and Glossy 1 - wD without alpha;
\* Alpha 1 - alpha, Diffuse alpha wD and Glossy alpha (1 - wD) with alpha),
\* pdf_comp_select(c) is that probability, lies in [0, 1], and the values of
\* pdf_comp_select sum to 1 over the lobes.
C17_LobeSelection ==
    /\ (material = "mixture_without_alpha" /\ call.op = "sample_comp_select")
          => /\ call.ret_comp \in Comps2
             /\ Less(Zero, ProbWithoutAlpha(call.ret_comp))
    /\ (material = "mixture_without_alpha" /\ call.op = "pdf_comp_select")
          => /\ ProbWithoutAlpha(Comp_Diffuse) = StatedWD
             /\ ProbWithoutAlpha(Comp_Glossy) = Sub(One, StatedWD)
             /\ call.ret = ProbWithoutAlpha(call.comp)
             /\ InUnitInterval(call.ret)
             /\ Add(Mixture_Without_Alpha_pdf_comp_select(geom, Comp_Diffuse),
                    Mixture_Without_Alpha_pdf_comp_select(geom, Comp_Glossy))
                = One
    /\ (material = "mixture" /\ call.op = "sample_comp_select")
          => /\ call.ret_comp \in Comps3
             /\ Less(Zero, ProbMixture(call.ret_comp))
    /\ (material = "mixture" /\ call.op = "pdf_comp_select")
          => /\ ProbMixture(Comp_Alpha) = Sub(One, geom.alpha)
             /\ ProbMixture(Comp_Diffuse) = Mul(geom.alpha, StatedWD)
             /\ ProbMixture(Comp_Glossy)
                = Mul(geom.alpha, Sub(One, StatedWD))
             /\ call.ret = ProbMixture(call.comp)
             /\ InUnitInterval(call.ret)
             /\ Add(Add(Mixture_pdf_comp_select(geom, Comp_Alpha),
                        Mixture_pdf_comp_select(geom, Comp_Diffuse)),
                    Mixture_pdf_comp_select(geom, Comp_Glossy))
                = One

\* pdf_comp_select of the material with alpha has answered for a lobe that
\* is selected with a probability strictly between 0 and 1, at a point
\* where all three lobes can be selected.
C17_Witness ==
    /\ material = "mixture"
    /\ call.op = "pdf_comp_select"
    /\ call.comp = Comp_Glossy
    /\ call.ret = <<3, 8>>
    /\ geom.alpha = <<1, 2>>
    /\ StatedWD = <<1, 4>>

\* Both reflectances are black: the Diffuse lobe is selected always.
C17_WitnessBlack ==
    /\ material = "mixture_without_alpha"
    /\ call.op = "pdf_comp_select"
    /\ call.comp = Comp_Diffuse
    /\ compMax(geom.Kd) = Zero
    /\ compMax(geom.Ks) = Zero
    /\ call.ret = One

\* The marginal density and value of the mixture without alpha at the
\* directions of the call.
MarginalPdf ==
    Add(Mul(StatedWD, lobe[Comp_Diffuse].p),
        Mul(Sub(One, StatedWD), lobe[Comp_Glossy].p))

MarginalEval == VAdd(lobe[Comp_Diffuse].f, lobe[Comp_Glossy].f)

\* C18: for the mixture of a diffuse and a glossy lobe, pdf_direction is the
\* sum over both lobes of p_sel(c) p_c(wo), eval is the sum of the lobes'
\* eval, and a sample returned by sample_direction has the weight f / p of
\* these two, whichever lobe was selected.
C18_MixtureMarginal ==
    material = "mixture_without_alpha" =>
       /\ call.op = "pdf_direction" => call.ret = MarginalPdf
       /\ call.op = "eval" => call.ret_v = MarginalEval
       /\ (call.op = "sample_direction" /\ call.ret_s.some) =>
             /\ call.comp \in Comps2
             /\ call.ret_s.weight = VDiv(MarginalEval, MarginalPdf)

\* The Glossy lobe produced a sample at a point where the two lobes are
\* selected with different probabilities and answer different densities.
C18_Witness ==
    /\ material = "mixture_without_alpha"
    /\ call.op = "sample_direction"
    /\ call.comp = Comp_Glossy
    /\ call.ret_s.some
    /\ StatedWD = <<1, 4>>
    /\ lobe[Comp_Diffuse].p = <<1, 2>>
    /\ lobe[Comp_Glossy].p = Zero
    /\ lobe[Comp_Diffuse].f = Vec3(One)
    /\ call.ret_s.weight = Vec3(<<8, 1>>)

\* pdf_direction has answered at such a point.
C18_WitnessPdf ==
    /\ material = "mixture_without_alpha"
    /\ call.op = "pdf_direction"
    /\ StatedWD = <<3, 4>>
    /\ lobe[Comp_Diffuse].p = <<1, 2>>
    /\ lobe[Comp_Glossy].p = <<1, 2>>
    /\ call.ret = <<1, 2>>

\* sign(wo . n) # sign(wi . n) at the directions of the call.
OppositeSides == Sign(dot(call.wo, geom.n)) # Sign(dot(call.wi, geom.n))

\* C19: in the mixture with alpha, for wi and wo on opposite sides of the
\* surface pdf_direction is (1 - alpha) p_alpha and eval is
\* (1 - alpha) f_alpha; for wi and wo on the same side pdf_direction is
\* alpha wD p_D + alpha (1 - wD) p_G and eval is alpha (f_D + f_G), without
\* the Alpha lobe.
C19_HalfPlanes ==
    material = "mixture" =>
       /\ (call.op = "pdf_direction" /\ OppositeSides) =>
             call.ret = Mul(Sub(One, geom.alpha), lobe[Comp_Alpha].p)
       /\ (call.op = "eval" /\ OppositeSides) =>
             call.ret_v = VScale(lobe[Comp_Alpha].f, Sub(One, geom.alpha))
       /\ (call.op = "pdf_direction" /\ ~OppositeSides) =>
             call.ret = Add(Mul(Mul(geom.alpha, StatedWD),
                                lobe[Comp_Diffuse].p),
                            Mul(Mul(geom.alpha, Sub(One, StatedWD)),
                                lobe[Comp_Glossy].p))
       /\ (call.op = "eval" /\ ~OppositeSides) =>
             call.ret_v = VScale(VAdd(lobe[Comp_Diffuse].f,
                                      lobe[Comp_Glossy].f),
                                 geom.alpha)

\* wi and wo on the same side, with an Alpha lobe that would contribute.
C19_Witness ==
    /\ material = "mixture"
    /\ call.op = "pdf_direction"
    /\ ~OppositeSides
    /\ geom.alpha = <<1, 2>>
    /\ lobe[Comp_Alpha].p = <<1, 2>>
    /\ lobe[Comp_Diffuse].p = <<1, 2>>
    /\ lobe[Comp_Glossy].p = Zero
    /\ StatedWD = <<1, 4>>
    /\ call.ret = <<1, 16>>

\* wi and wo on opposite sides, with Diffuse and Glossy lobes that would
\* contribute.
C19_WitnessOpposite ==
    /\ material = "mixture"
    /\ call.op = "eval"
    /\ OppositeSides
    /\ geom.alpha = <<1, 2>>
    /\ lobe[Comp_Alpha].f = Vec3(One)
    /\ lobe[Comp_Diffuse].f = Vec3(One)
    /\ call.ret_v = Vec3(<<1, 2>>)

\* The direction a specular material scatters wi to.
DeltaDirection ==
    IF material = "mask" THEN <<-call.wi[1], -call.wi[2]>>
    ELSE reflection(call.wi, geom.n)

\* Mirror, Glass and Mask are specular, Mirror and Mask sample the one
\* direction with weight 1, and pdf_direction and eval are 0 when eval_delta
\* is not set.
SpecularWithoutDelta ==
    material \in Speculars =>
       /\ call.op = "is_specular" => call.ret_b
       /\ (call.op = "sample_direction" /\ material # "glass") =>
             /\ call.ret_s.some
             /\ call.ret_s.wo = DeltaDirection
             /\ call.ret_s.weight = Vec3(One)
       /\ (call.op = "pdf_direction" /\ ~call.eval_delta) => call.ret = Zero
       /\ (call.op = "eval" /\ ~call.eval_delta) => call.ret_v = Vec3(Zero)

\* C20: Mirror, Glass and Mask are specular, sample deterministically with
\* weight 1, and their pdf_direction and eval are 0 unless eval_delta is
\* set; with eval_delta set, the density and the value at the delta
\* direction are finite and not 0.
C20_SpecularDelta ==
    /\ SpecularWithoutDelta
    /\ (material \in {"mirror", "mask"} /\ call.eval_delta
        /\ call.wo = DeltaDirection) =>
          /\ call.op = "pdf_direction" =>
                (IsFinite(call.ret) /\ call.ret # Zero)
          /\ call.op = "eval" =>
                (VFinite(call.ret_v) /\ call.ret_v # Vec3(Zero))

\* The cosine of wi to the normal, the relative index of refraction on the
\* side of wi, and the discriminant of the refraction at the call.
GlassCos == fdot(call.wi, ToFloat(geom.n))
GlassEta == IF Less(Zero, GlassCos) THEN Div(One, Ni_) ELSE Ni_
GlassDisc ==
    Sub(One, Mul(Mul(GlassEta, GlassEta), Sub(One, Mul(GlassCos, GlassCos))))
GlassTotal == Less(GlassDisc, Zero)

\* R0 = ((1 - Ni) / (1 + Ni))^2
GlassR0 ==
    Mul(Div(Sub(One, Ni_), Add(One, Ni_)), Div(Sub(One, Ni_), Add(One, Ni_)))

\* The Schlick term R0 + (1 - R0) (1 - cos)^5 with the cosine on the outer
\* side of the surface: that of wi from outside, that of the refracted
\* direction, sqrt(discriminant), from inside; 1 on total reflection.
StatedF ==
    IF GlassTotal THEN One
    ELSE LET c == IF Less(Zero, GlassCos) THEN GlassCos ELSE Sqrt(GlassDisc)
         IN  Add(GlassR0, Mul(Sub(One, GlassR0), Pow5(Sub(One, c))))

C21_WitnessTotal ==
    /\ material = "glass" /\ call.op = "sample_direction"
    /\ GlassTotal
    /\ GlassCos # Zero
    /\ call.u[1] = <<99, 100>>
    /\ call.ret_s.comp = 0


\* ------------------------------------------------------------------------
\* Properties of construct()
\* ------------------------------------------------------------------------
\* The material the illum value of an MTL record stands for.
StatedImpl(m) ==
    IF props.skip_specular_mat
    THEN IF m.illum \in {5, 7} THEN "material::diffuse"
         ELSE "material::wavefrontobj_marginal_without_alpha"
    ELSE IF m.illum = 5 THEN "material::mirror"
    ELSE IF m.illum = 7 THEN "material::glass"
    ELSE "material::wavefrontobj_mixture"

\* r = 2 / (2 + Ns) and as = sqrt(1 - 0.9 an) of the two shininess records.
StatedR(m) == IF m.Ns = Zero THEN One ELSE <<1, 2>>
StatedAs(m) == IF m.an = Zero THEN One ELSE <<1, 2>>

StatedParams(m, a) ==
    IF a.impl = "material::diffuse" THEN a.params.Kd = Vec3(Zero)
    ELSE IF a.impl = "material::glass" THEN a.params.Ni = m.Ni
    ELSE IF a.impl = "material::mirror" THEN TRUE
    ELSE /\ a.params.Kd = m.Kd
         /\ a.params.Ks = m.Ks
         /\ a.params.ax = glm_max(<<1, 1000>>, Div(StatedR(m), StatedAs(m)))
         /\ a.params.ay = glm_max(<<1, 1000>>, Mul(StatedR(m), StatedAs(m)))

IsMaterial(a) ==
    a.impl \in {"material::diffuse", "material::glass", "material::mirror",
                "material::wavefrontobj_mixture",
                "material::wavefrontobj_marginal_without_alpha",
                "material::proxy"}

\* C22: without base_material the "Process material" callback of
\* Model_WavefrontObj::construct creates material::mirror for illum 5,
\* material::glass with Ni for illum 7 and the mixture of Kd, Ks, ax, ay for
\* every other illum; with skip_specular_mat it creates material::diffuse
\* with Kd = 0 for illum 5 and 7 and the marginal_without_alpha mixture for
\* every other illum. It appends exactly one material asset, the last of
\* assets_, and registers its index under the name of the material; when a
\* creation fails nothing is registered under the name and construct throws
\* IOError.
C22_IllumMapping ==
    [][(WavefrontObj_process_material /\ ~props.base_material) =>
          LET m == Head(pending).m
              new == SubSeq(assets_', Len(assets_) + 1, Len(assets_'))
          IN  IF cpc' = "thrown"
              THEN /\ cerr' = IOError
                   /\ \A i \in 1..Len(new) : ~IsMaterial(new[i])
                   /\ \A e \in assets_map_' :
                         e[1] = m.name => e \in assets_map_
              ELSE /\ cpc' = "load" /\ cerr' = NoError
                   /\ Cardinality({i \in 1..Len(new) : IsMaterial(new[i])})
                         = 1
                   /\ LET a == assets_'[Len(assets_')]
                      IN  /\ a.impl = StatedImpl(m)
                          /\ a.loc = m.name
                          /\ StatedParams(m, a)
                   /\ MapHas(assets_map_', m.name)
                   /\ MapGet(assets_map_', m.name) = Len(assets_') - 1
                   /\ Cardinality({e \in assets_map_' : e[1] = m.name}) = 1
    ]_vars

\* C22: construct ends by returning or by throwing IOError, and it returns
\* only when every callback returned true.
C22_ConstructResult ==
    component = "model::wavefrontobj" =>
        /\ cpc = "thrown" => cerr = IOError
        /\ cpc = "returned" => (pending = <<>> /\ cerr = NoError)

\* A glass with the Ni of its MTL record is registered as "m1" behind the
\* texture of another material.
C22_Witness ==
    /\ component = "model::wavefrontobj"
    /\ ~props.base_material /\ ~props.skip_specular_mat
    /\ cpc = "load"
    /\ Len(assets_) = 1
    /\ assets_[1].impl = "material::glass"
    /\ assets_[1].params.Ni = <<3, 2>>
    /\ assets_map_ = {<<"m1", 0>>}

\* A mixture with ax = 1 and ay = 1/4 behind its texture.
C22_WitnessMixture ==
    /\ component = "model::wavefrontobj"
    /\ ~props.base_material /\ ~props.skip_specular_mat
    /\ Len(assets_) = 2
    /\ assets_[1].impl = "texture::bitmap"
    /\ assets_[2].impl = "material::wavefrontobj_mixture"
    /\ assets_[2].params.ax = One
    /\ assets_[2].params.ay = <<1, 4>>
    /\ assets_[2].params.mapKd = "texture_wood"
    /\ assets_map_ = {<<"texture_wood", 0>>, <<"m2", 1>>}

\* A creation that fails makes construct throw IOError.
C22_WitnessIOError ==
    /\ component = "model::wavefrontobj"
    /\ cpc = "thrown" /\ cerr = IOError
    /\ assets_ = <<>>

\* C25: when Renderer_PT::construct returns, 'mode' and 'image_sample_mode'
\* were absent or recognized, pt_mode_ is Naive, NEE or MIS (MIS when 'mode'
\* is absent), image_sample_mode_ is Pixel or Image (Pixel when
\* 'image_sample_mode' is absent), and sched_ is a scheduler::spp of the
\* given name for Pixel and a scheduler::spi of that name for Image.
C25_ConstructValidates ==
    (component = "renderer::pt" /\ cpc = "returned") =>
        /\ props.mode \in {"", "naive", "nee", "mis"}
        /\ props.image_sample_mode \in {"", "pixel", "image"}
        /\ this.pt_mode_ \in PTModes
        /\ props.mode = "" => this.pt_mode_ = "MIS"
        /\ this.image_sample_mode_ \in ImageSampleModes
        /\ props.image_sample_mode = "" => this.image_sample_mode_ = "Pixel"
        /\ this.sched_.name = props.scheduler
        /\ this.sched_.kind =
              IF this.image_sample_mode_ = "Pixel" THEN "spp" ELSE "spi"

\* C25, the recognized values: construct sets the two modes as stated and
\* asks for the scheduler that matches the image sample mode.
C25_RecognizedValues ==
    (/\ component = "renderer::pt" /\ cpc = "returned"
     /\ props.mode \in {"", "naive", "nee", "mis"}
     /\ props.image_sample_mode \in {"", "pixel", "image"}) =>
        /\ this.pt_mode_ =
              IF props.mode = "naive" THEN "Naive"
              ELSE IF props.mode = "nee" THEN "NEE" ELSE "MIS"
        /\ this.image_sample_mode_ =
              IF props.image_sample_mode = "image" THEN "Image" ELSE "Pixel"
        /\ this.sched_ # NullSched =>
              /\ this.sched_.name = props.scheduler
              /\ this.sched_.kind =
                    IF this.image_sample_mode_ = "Pixel" THEN "spp"
                    ELSE "spi"

\* ------------------------------------------------------------------------
\* Properties of Scene::visible
\* ------------------------------------------------------------------------
\* C23: for two interactions that are not infinite and any set of occluders
\* visible(sp1, sp2) = visible(sp2, sp1); the shadow ray starts at sp1 and
\* covers the parameters from Eps to d (1 - Eps), d the distance of the
\* points.
C23_VisibleSymmetric ==
    (vcall.op = "visible" /\ ~vcall.sp1.infinite /\ ~vcall.sp2.infinite) =>
        /\ vcall.origin = vcall.sp1
        /\ vcall.tmin = Eps
        /\ vcall.tmax = Mul(distance(vcall.sp1.p, vcall.sp2.p),
                            Sub(One, Eps))
        /\ vcall.ret = visible(vcall.scene, vcall.sp2, vcall.sp1).ret

\* C23, the range alone.
C23_ShadowRayRange ==
    (vcall.op = "visible" /\ ~vcall.sp1.infinite /\ ~vcall.sp2.infinite) =>
        /\ vcall.origin = vcall.sp1
        /\ vcall.tmin = Eps
        /\ vcall.tmax = Mul(distance(vcall.sp1.p, vcall.sp2.p),
                            Sub(One, Eps))

\* C24: every call visible(sp1, sp2) passes the assertion that the origin
\* of the shadow ray is not infinite; with exactly one infinite endpoint,
\* in either position, the ray starts at the other endpoint, runs along the
\* negated direction of the infinite one and has tmax < Inf, so that the
\* environment light never occludes.
C24_InfiniteEndpoint ==
    vcall.op = "visible" =>
        /\ vcall.asserted
        /\ (vcall.sp1.infinite # vcall.sp2.infinite) =>
              LET far == IF vcall.sp1.infinite THEN vcall.sp1 ELSE vcall.sp2
                  near == IF vcall.sp1.infinite THEN vcall.sp2 ELSE vcall.sp1
              IN  /\ vcall.origin = near
                  /\ vcall.wo = -far.wo
                  /\ Less(vcall.tmax, Inf)
                  /\ vcall.scene.occluders = {} => vcall.ret

\* C24, the calls with exactly one infinite endpoint.
C24_OneInfinite ==
    (vcall.op = "visible" /\ vcall.sp1.infinite # vcall.sp2.infinite) =>
        LET far == IF vcall.sp1.infinite THEN vcall.sp1 ELSE vcall.sp2
            near == IF vcall.sp1.infinite THEN vcall.sp2 ELSE vcall.sp1
        IN  /\ vcall.asserted
            /\ vcall.origin = near
            /\ vcall.wo = -far.wo
            /\ Less(vcall.tmax, Inf)
            /\ vcall.scene.occluders = {} => vcall.ret


\* ------------------------------------------------------------------------
\* Termination of the walks
\* ------------------------------------------------------------------------
Max0(n) == IF n < 0 THEN 0 ELSE n

\* Steps the walk of a PT task has still to make, at most.
PT_rank ==
    IF wpc \in {"done", "crashed"} THEN 0
    ELSE 1 + 6 * Max0(max_length_ - length)
           + (CASE wpc = "sample_ray" -> 5 [] wpc = "nee" -> 4
                [] wpc = "intersect" -> 3 [] wpc = "direct" -> 2
                [] wpc = "rr" -> 1 [] OTHER -> 0)

\* Splats of the current iteration.
IterationSplats ==
    (IF neeSplat.some THEN 1 ELSE 0) + (IF directSplat.some THEN 1 ELSE 0)

\* C26, the walk of a PT task: it terminates. Every step lowers a bound on the
\* steps left; sample_ray is called once per iteration, at the lengths 0 to
\* max_length - 1 in turn, so at most max_length times; an iteration makes at
\* most two splats, so the task at most 2 max_length; and with
\* max_length <= 0 there is no iteration and no splat.
C26_PTWalk ==
    [][renderer = "pt" =>
       /\ PT_rank' < PT_rank
       /\ PT_rank' >= 0
       /\ PT_walk_sample_ray => (0 <= length /\ length < max_length_)
       /\ length' \in {length, length + 1}
       /\ (length' = length + 1) =
             (wpc' = "sample_ray" /\ wpc # "sample_ray")
       /\ wpc \notin {"sample_ray", "done", "crashed"} =>
             length < max_length_
       /\ IterationSplats' <= 2
       /\ (IterationSplats' > IterationSplats) =>
             /\ IterationSplats' = IterationSplats + 1
             /\ length' = length /\ length < max_length_
             /\ wpc \in {"nee", "direct"} /\ wpc' # wpc
       /\ max_length_ <= 0 =>
             (wpc' = "done" /\ s' = NoRaySample /\ IterationSplats' = 0)
    ]_vars

\* The last iteration of a walk of max_length iterations made two splats.
C26_Witness ==
    /\ renderer = "pt"
    /\ max_length_ = MaxLength
    /\ length = max_length_ - 1
    /\ wpc = "rr"
    /\ IterationSplats = 2

\* A task with max_length = -1 ended without an iteration.
C26_WitnessNoIteration ==
    /\ renderer = "pt"
    /\ max_length_ = -1
    /\ wpc = "done" /\ length = 0 /\ s = NoRaySample

\* Steps the walk of a VolPT task has still to make, at most.
VolPT_rank ==
    IF wpc \in {"done", "crashed"} THEN 0
    ELSE 1 + 5 * Max0(max_verts_ - num_verts)
           + (CASE wpc = "vol_nee" -> 4 [] wpc = "vol_direction" -> 3
                [] wpc = "vol_distance" -> 2 [] wpc = "vol_rr" -> 1
                [] OTHER -> 0)

\* C26, the walk of a VolPT task: it terminates within max_verts - 1
\* iterations, num_verts running from 1 to max_verts - 1, each iteration
\* making at most two splats; with max_verts <= 1 there is no iteration and
\* no splat.
C26_VolPTWalk ==
    [][renderer = "volpt" =>
       /\ VolPT_rank' < VolPT_rank
       /\ VolPT_rank' >= 0
       /\ num_verts' \in {num_verts, num_verts + 1}
       /\ (num_verts' = num_verts + 1) =
             (wpc' = "vol_nee" /\ wpc # "vol_nee")
       /\ wpc # "vol_nee" => (1 <= num_verts /\ num_verts < max_verts_)
       /\ IterationSplats' <= 2
       /\ (IterationSplats' > IterationSplats) =>
             /\ IterationSplats' = IterationSplats + 1
             /\ num_verts' = num_verts /\ num_verts < max_verts_
             /\ wpc \in {"vol_nee", "vol_distance"} /\ wpc' # wpc
       /\ max_verts_ <= 1 =>
             (wpc' = "done" /\ s' = NoRaySample /\ IterationSplats' = 0)
    ]_vars

\* C26: every walk terminates, a PT task within max_length iterations,
\* max_length calls to sample_ray and 2 max_length splats, a VolPT task
\* within max_verts - 1 iterations, whatever the samples and the scene
\* queries return; with max_length <= 0, or max_verts <= 1, the task makes
\* no iteration and no splat.
C26_WalksTerminate == C26_PTWalk /\ C26_VolPTWalk

\* The last iteration of a walk of max_verts - 1 iterations made a splat.
C26_WitnessVolPT ==
    /\ renderer = "volpt"
    /\ max_verts_ = MaxVerts
    /\ num_verts = max_verts_ - 1
    /\ wpc = "vol_rr"
    /\ IterationSplats = 1

\* C27: in VolPT the walk ends in the iteration whose sample_distance
\* returns an infinite interaction: the emission of the environment, when
\* it counts, has been splatted, and no Russian roulette, component sample
\* or further iteration follows.
C27_EndsAtInfinity ==
    (renderer = "volpt" /\ sd.some /\ sd.infinite) =>
        /\ wpc = "done"
        /\ rr = NoRoulette
        /\ directSplat.some = VolPT_emissive(samplable_by_nee, sd)
        /\ ~ENABLED NextVolPT

\* The environment is reached from the second vertex by a direction NEE
\* does not sample, and its emission is splatted.
C27_Witness ==
    /\ renderer = "volpt"
    /\ sd.some /\ sd.infinite
    /\ num_verts = 2
    /\ directSplat.some
    /\ wpc = "done"


\* ------------------------------------------------------------------------
\* The sample weight of Material_WavefrontObj_Mixture
\* ------------------------------------------------------------------------
\* A sample_direction call of the mixture that returned a sample, the mask
\* answering as Material_Mask does, and the diffuse or glossy lobe having
\* sampled a direction on the side of wi with a positive density.
MixtureSampled ==
    /\ call.mat = "mixture"
    /\ call.op = "sample_direction"
    /\ call.ret_s.some
    /\ lobe[Comp_Alpha].p = Mask_pdf_direction(geom, call.wi, call.ret_s.wo)
    /\ lobe[Comp_Alpha].f = Mask_eval(geom, call.wi, call.ret_s.wo)
    /\ call.comp # Comp_Alpha =>
          /\ ~opposite(geom, call.wi, call.ret_s.wo)
          /\ Less(Zero, lobe[call.comp].p)

WeightWellDefined ==
    /\ VFinite(call.ret_s.weight)
    /\ Less(Zero, Mixture_pdf_direction(geom, lobe, call.wi, call.ret_s.wo))
    /\ call.ret_s.specular = (call.comp = Comp_Alpha)

\* C28: whenever sample_direction of Material_WavefrontObj_Mixture returns
\* a sample, the marginal pdf at the sampled direction is positive and the
\* weight f / p is finite, for every lobe that can be selected, the Alpha
\* lobe with wo = -wi included; the specular flag is set exactly when the
\* Alpha lobe was selected.
C28_MixtureWeightFinite == MixtureSampled => WeightWellDefined

\* C28, the diffuse and the glossy lobe.
C28_OtherLobes ==
    (MixtureSampled /\ call.comp # Comp_Alpha) => WeightWellDefined

\* C28, the Alpha lobe: wo = -wi, the flag is set, p = (1 - alpha) 0 = 0 and
\* the weight is 0 / 0.
C28_AlphaLobe ==
    (MixtureSampled /\ call.comp = Comp_Alpha) =>
        /\ call.ret_s.wo = <<-call.wi[1], -call.wi[2]>>
        /\ call.ret_s.specular
        /\ Mixture_pdf_direction(geom, lobe, call.wi, call.ret_s.wo) = Zero
        /\ call.ret_s.weight = Vec3(NaN)

C28_AlphaSelected == MixtureSampled /\ call.comp = Comp_Alpha


\* ------------------------------------------------------------------------
\* The two MIS weights of one edge
\* ------------------------------------------------------------------------
\* In MIS mode the NEE block and the direct hit of one iteration weighted
\* the same edge: the continuation ray runs along the NEE edge, and both
\* strategies have a positive density there.
SameEdgeWeighted ==
    /\ pt_mode_ = "MIS"
    /\ neeSplat.some /\ neeSplat.queried
    /\ directSplat.some /\ directSplat.queried
    /\ sL.wo = -s.wo
    /\ neeSplat.pdf_direct > 0 /\ neeSplat.pdf_direction > 0

\* C29: in MIS mode the NEE weight and the direct-hit weight of one edge
\* sum to 1: both are computed from the same pdf_direct value, queried for
\* the same endpoint component, and the same pdf_direction value.
C29_MisWeightsSumToOne ==
    SameEdgeWeighted =>
        /\ neeSplat.pdf_direction = directSplat.pdf_direction
        /\ neeSplat.pdf_direct = directSplat.pdf_direct
        /\ Add(neeSplat.misw, directSplat.misw) = One

\* C29, the lights whose sample carries the component -1.
C29_SameComponent ==
    (SameEdgeWeighted /\ sL.comp = -1) =>
        /\ neeSplat.pdf_direction = directSplat.pdf_direction
        /\ neeSplat.pdf_direct = directSplat.pdf_direct
        /\ Add(neeSplat.misw, directSplat.misw) = One

C29_WitnessSameComponent ==
    SameEdgeWeighted /\ sL.comp = -1 /\ neeSplat.misw = <<1, 2>>


\* ------------------------------------------------------------------------
\* The ray of a sample
\* ------------------------------------------------------------------------
\* C30: in Renderer_PT every call intersect(s->ray()) is made with a sample
\* whose interaction is not infinite, so that the assertion of
\* RaySample::ray() holds: once intersect has returned the infinite
\* interaction of the environment light, no ray is cast from it.
C30_NoRayFromInfinity ==
    [][PT_walk_intersect => RaySample_ray_asserted(sp)]_vars

\* C30, up to the update: the walk is not ended by a hit at infinity.
C30_WalkGoesOn ==
    (renderer = "pt" /\ hit.some /\ hit.infinite /\ wpc = "rr"
     /\ length <= 3) => ENABLED PT_walk_rr

\* The ray of the second iteration is asked of a sample drawn at infinity.
C30_WitnessInfinite ==
    /\ renderer = "pt"
    /\ sp = "infinite" /\ length = 1
    /\ wpc = "intersect" /\ s.some

====
